---- MODULE Spec2Model ----
(***************************************************************************)
(* Model of the training-load analytics and decision engine of sync.py     *)
(* (class IntervalsSync).  The engine is a set of pure functions applied   *)
(* by collect_training_data to the fetched records; the only state kept    *)
(* across runs is the FTP history file.                                    *)
(*                                                                         *)
(* Encoding.  An optional value (Python None or a number) is a set with at *)
(* most one element: {} is None, {x} is x.  Decimal values are scaled      *)
(* integers: a value rounded to 2 places is held in hundredths, a value    *)
(* rounded to 1 place in tenths (the unit is stated at each definition).   *)
(***************************************************************************)
EXTENDS Integers, Sequences, FiniteSets, TLC

VARIABLES
    pc,                   \* which specification's operation acted last
    today,                \* datetime.now() as a day number
    history,              \* ftp_history.json: context -> (date -> FTP)
    current_ftp_indoor,   \* the indoor FTP the last run was given
    current_ftp_outdoor,  \* the outdoor FTP the last run was given
    wellness_older,       \* wellness records of the 28 days before the display window
    wellness_7d,          \* wellness records of the display window, oldest first
    load_inputs,          \* load figures of the window (totals, monotony, sports)
    capability_inputs,    \* durability and TID-comparison figures of the window
    race_calendar,        \* what _build_race_calendar returned
    derived_metrics,      \* what _calculate_derived_metrics returned
    generated_alerts,     \* the list _generate_alerts returned
    alerts,               \* the "alerts" list of the published report
    phase_inputs,         \* the arguments _detect_phase was called with
    phase_detected,       \* the phase _detect_phase returned
    zone_inputs,          \* Seiler zone seconds of days 1-7 and of days 8-28
    seiler_tid_7d,        \* what _build_seiler_tid returned for the 7-day window
    seiler_tid_28d,       \* what _build_seiler_tid returned for the 28-day window
    tid_drift_report,     \* what _calculate_tid_comparison returned
    events,               \* the calendar events fetched
    current_ctl,          \* fitness (CTL) of today
    current_atl,          \* fatigue (ATL) of today
    activities_extended,  \* the athlete's activities by date (a run sees those up to today)
    activity_log,         \* the 28 days of activities fetched for the load metrics
    planned_events,       \* past_events: the calendar events dated up to today
    load_report,          \* daily loads, ACWR and monotony of the last run
    durability_report,    \* what _calculate_durability returned
    consistency_report    \* what _calculate_consistency_index returned

ftp_vars == <<today, history, current_ftp_indoor, current_ftp_outdoor>>

run_inputs == <<wellness_older, wellness_7d, load_inputs, capability_inputs, race_calendar>>

run_outputs == <<derived_metrics, generated_alerts, alerts>>

phase_vars == <<phase_inputs, phase_detected>>

tid_vars == <<zone_inputs, seiler_tid_7d, seiler_tid_28d, tid_drift_report>>

race_vars == <<events, current_ctl, current_atl, activities_extended>>

load_vars == <<activity_log, planned_events, load_report, durability_report,
               consistency_report>>

vars == <<pc, ftp_vars, run_inputs, run_outputs, phase_vars, tid_vars, race_vars,
          load_vars>>

----------------------------------------------------------------------------
(* Optional values *)

None == {}

Some(x) == {x}

Val(o) == CHOOSE x \in o : TRUE

\* Python truthiness of an optional number: None and 0 are falsy.
Truthy(o) == o # None /\ Val(o) # 0

SetMax(S) == CHOOSE x \in S : \A y \in S : y <= x

----------------------------------------------------------------------------
(* Threshold (FTP) history: _save_ftp_history *)

MaxDay == 3

Days == 1..MaxDay

Contexts == {"indoor", "outdoor"}

\* The FTP values a run may be given: absent, 0 (falsy) or a value.
FtpInputs == {None, Some(0), Some(250), Some(260)}

\* dict assignment h[d] = v
DictPut(h, d, v) == [k \in (DOMAIN h) \cup {d} |-> IF k = d THEN v ELSE h[k]]

EmptyDict == [k \in {} |-> 0]

\* most_recent = h[sorted(h.keys(), reverse=True)[0]]
MostRecent(h) == h[SetMax(DOMAIN h)]

\* A plausible slip: the comparison with the most recent entry is dropped.
SaveContextNoCompare(h, cur, t) ==
    IF Truthy(cur) THEN DictPut(h, t, Val(cur)) ELSE h

\* One context's branch of _save_ftp_history.
SaveContext(h, cur, t) ==
    IF Truthy(cur)
    THEN IF DOMAIN h # {}
         THEN IF Val(cur) # MostRecent(h) THEN DictPut(h, t, Val(cur)) ELSE h
         ELSE DictPut(h, t, Val(cur))
    ELSE h

save_ftp_history(hist, indoor, outdoor, t) ==
    [c \in Contexts |->
        IF c = "indoor" THEN SaveContext(hist[c], indoor, t)
        ELSE SaveContext(hist[c], outdoor, t)]

----------------------------------------------------------------------------
(* Arithmetic on scaled integers *)

\* Python round(): n/d (d > 0) to the nearest integer, a tie to the even one.
RoundDiv(n, d) ==
    LET q == n \div d
        r == n - q * d
    IN  IF 2 * r < d THEN q
        ELSE IF 2 * r > d THEN q + 1
        ELSE IF q % 2 = 0 THEN q ELSE q + 1

RECURSIVE SeqSum(_)
SeqSum(s) == IF s = <<>> THEN 0 ELSE s[1] + SeqSum(Tail(s))

\* round(statistics.mean(values), 1) in tenths, None for an empty list
Baseline(values) ==
    IF values = <<>> THEN None
    ELSE Some(RoundDiv(10 * SeqSum(values), Len(values)))

----------------------------------------------------------------------------
(* Wellness: validity filter, baselines, Recovery Index *)

\* A plausible slip: only the presence of the reading is checked.
is_valid_hrv_presence_only(value) == value # None

\* _is_valid_hrv: value is not None and 10 <= value <= 250
is_valid_hrv(value) ==
    value # None /\ 10 <= Val(value) /\ Val(value) <= 250

\* [w.get("hrv") for w in wellness if self._is_valid_hrv(w.get("hrv"))]
hrv_values(wellness) ==
    LET kept == SelectSeq(wellness, LAMBDA w : is_valid_hrv(w.hrv))
    IN  [i \in 1..Len(kept) |-> Val(kept[i].hrv)]

\* [w.get("restingHR") for w in wellness if w.get("restingHR")]
rhr_values(wellness) ==
    LET kept == SelectSeq(wellness, LAMBDA w : Truthy(w.restingHR))
    IN  [i \in 1..Len(kept) |-> Val(kept[i].restingHR)]

\* latest_hrv: the last record's reading, None when it fails the filter
latest_hrv_of(wellness) ==
    IF wellness = <<>> THEN None
    ELSE IF is_valid_hrv(wellness[Len(wellness)].hrv)
         THEN wellness[Len(wellness)].hrv ELSE None

latest_rhr_of(wellness) ==
    IF wellness = <<>> THEN None ELSE wellness[Len(wellness)].restingHR

\* RI = round((hrv / hrv_baseline) / (rhr / rhr_baseline), 2), in hundredths;
\* the baselines are in tenths, so the quotient is hrv*rhr_base/(hrv_base*rhr).
recovery_index_of(hrv, rhr, hrv_base, rhr_base) ==
    IF Truthy(hrv) /\ Truthy(rhr) /\ Truthy(hrv_base) /\ Truthy(rhr_base)
    THEN IF Val(rhr) > 0 /\ Val(rhr_base) > 0 /\ Val(hrv_base) > 0
         THEN Some(RoundDiv(100 * Val(hrv) * Val(rhr_base),
                            Val(hrv_base) * Val(rhr)))
         ELSE None
    ELSE None

----------------------------------------------------------------------------
(* Load metrics taken over by _calculate_derived_metrics *)

\* A plausible slip: no ratio without an acute load either.
acwr_of_needs_acute_load(tss_7d_total, tss_28d_total) ==
    IF tss_7d_total > 0 /\ tss_28d_total > 0
    THEN Some(RoundDiv(400 * tss_7d_total, tss_28d_total))
    ELSE None

\* acwr = round((tss_7d/7) / (tss_28d/28), 2) in hundredths, None when the
\* chronic load is not positive
acwr_of(tss_7d_total, tss_28d_total) ==
    IF tss_28d_total > 0
    THEN Some(RoundDiv(400 * tss_7d_total, tss_28d_total))
    ELSE None

\* A plausible slip: the primary-sport value taken only when it is lower.
effective_monotony_of_only_when_lower(is_multi_sport, primary_sport_monotony, monotony) ==
    IF /\ is_multi_sport
       /\ primary_sport_monotony # None
       /\ monotony # None
       /\ Val(primary_sport_monotony) < Val(monotony)
    THEN primary_sport_monotony ELSE monotony

\* effective_monotony (line 632)
effective_monotony_of(is_multi_sport, primary_sport_monotony, monotony) ==
    IF is_multi_sport /\ primary_sport_monotony # None
    THEN primary_sport_monotony ELSE monotony

\* strain = round(tss_7d_total * monotony, 0) if monotony else None
strain_of(tss_7d_total, monotony) ==
    IF Truthy(monotony) THEN Some(RoundDiv(tss_7d_total * Val(monotony), 100))
    ELSE None

\* trend of _calculate_durability from the two means (hundredths of a point)
durability_trend(mean_7d, mean_28d) ==
    IF mean_7d # None /\ mean_28d # None
    THEN LET delta == Val(mean_7d) - Val(mean_28d)
         IN  IF delta < -100 THEN "improving"
             ELSE IF delta > 100 THEN "declining"
             ELSE "stable"
    ELSE "none"

calculate_derived_metrics(older, w7, li, ci) ==
    LET hrv_baseline_7d == Baseline(hrv_values(w7))
        rhr_baseline_7d == Baseline(rhr_values(w7))
        latest_hrv == latest_hrv_of(w7)
        latest_rhr == latest_rhr_of(w7)
    IN  [ recovery_index |->
              recovery_index_of(latest_hrv, latest_rhr,
                                hrv_baseline_7d, rhr_baseline_7d),
          hrv_baseline_7d |-> hrv_baseline_7d,
          rhr_baseline_7d |-> rhr_baseline_7d,
          hrv_baseline_28d |-> Baseline(hrv_values(older \o w7)),
          rhr_baseline_28d |-> Baseline(rhr_values(older \o w7)),
          latest_hrv |-> latest_hrv,
          latest_rhr |-> latest_rhr,
          acwr |-> acwr_of(li.tss_7d_total, li.tss_28d_total),
          monotony |-> li.monotony,
          primary_sport_monotony |-> li.primary_sport_monotony,
          effective_monotony |->
              effective_monotony_of(li.multi_sport_detected,
                                    li.primary_sport_monotony, li.monotony),
          multi_sport_detected |-> li.multi_sport_detected,
          strain |-> strain_of(li.tss_7d_total, li.monotony),
          tss_7d_total |-> li.tss_7d_total,
          tss_28d_total |-> li.tss_28d_total,
          capability |->
              [ durability |->
                    [ mean_decoupling_7d |-> ci.mean_decoupling_7d,
                      mean_decoupling_28d |-> ci.mean_decoupling_28d,
                      high_drift_count_7d |-> ci.high_drift_count_7d,
                      trend |-> durability_trend(ci.mean_decoupling_7d,
                                                 ci.mean_decoupling_28d) ],
                tid_comparison |-> [ drift |-> ci.drift ] ] ]

----------------------------------------------------------------------------
(* Alert engine: _generate_alerts and its helpers *)

Alert(metric, severity, tier, persistence_days) ==
    [ metric |-> metric, severity |-> severity, tier |-> tier,
      persistence_days |-> persistence_days ]

\* _detect_deload_context, TRUE when it returns a context string: the 7-day
\* total is at least 20% below tss_28d_total / 4.  Loads are not negative.
detect_deload_context(tss_7d_total, tss_28d_total) ==
    IF tss_28d_total = 0 THEN FALSE
    ELSE 100 * (tss_28d_total - 4 * tss_7d_total) >= 20 * tss_28d_total

\* _count_hrv_low_days: threshold = baseline * 0.8 (baseline in tenths)
RECURSIVE count_hrv_low_days(_, _)
count_hrv_low_days(wellness, baseline) ==
    IF wellness = <<>> THEN 0
    ELSE LET hrv == wellness[Len(wellness)].hrv
         IN  IF is_valid_hrv(hrv) /\ 100 * Val(hrv) < 8 * baseline
             THEN 1 + count_hrv_low_days(SubSeq(wellness, 1, Len(wellness) - 1),
                                         baseline)
             ELSE 0

\* _count_rhr_high_days: threshold = baseline + 5 (baseline in tenths)
RECURSIVE count_rhr_high_days(_, _)
count_rhr_high_days(wellness, baseline) ==
    IF wellness = <<>> THEN 0
    ELSE LET rhr == wellness[Len(wellness)].restingHR
         IN  IF rhr # None /\ 10 * Val(rhr) >= baseline + 50
             THEN 1 + count_rhr_high_days(SubSeq(wellness, 1, Len(wellness) - 1),
                                          baseline)
             ELSE 0

\* A plausible slip: the low thresholds strict, acwr < 0.75 and acwr < 0.8.
acwr_alerts_strict_low(acwr) ==
    IF acwr = None THEN <<>>
    ELSE IF Val(acwr) < 75 \/ Val(acwr) >= 135
         THEN <<Alert("acwr", "alarm", 2, None)>>
         ELSE IF Val(acwr) < 80 \/ Val(acwr) >= 130
              THEN <<Alert("acwr", "warning", 2, None)>>
              ELSE <<>>

\* A plausible slip: "if" in place of "elif", so an alarm adds a warning too.
acwr_alerts_no_elif(acwr) ==
    IF acwr = None THEN <<>>
    ELSE (IF Val(acwr) <= 75 \/ Val(acwr) >= 135
          THEN <<Alert("acwr", "alarm", 2, None)>> ELSE <<>>)
         \o (IF Val(acwr) <= 80 \/ Val(acwr) >= 130
             THEN <<Alert("acwr", "warning", 2, None)>> ELSE <<>>)

\* lines 1589-1610
acwr_alerts(acwr) ==
    IF acwr = None THEN <<>>
    ELSE IF Val(acwr) <= 75 \/ Val(acwr) >= 135
         THEN <<Alert("acwr", "alarm", 2, None)>>
         ELSE IF Val(acwr) <= 80 \/ Val(acwr) >= 130
              THEN <<Alert("acwr", "warning", 2, None)>>
              ELSE <<>>

\* A plausible slip: the deload context is not consulted.
monotony_alerts_no_deload(effective_monotony, tss_7d_total, tss_28d_total) ==
    IF effective_monotony = None THEN <<>>
    ELSE IF Val(effective_monotony) >= 250
         THEN <<Alert("monotony", "alarm", 2, None)>>
         ELSE IF Val(effective_monotony) >= 230
              THEN <<Alert("monotony", "warning", 2, None)>>
              ELSE <<>>

monotony_alerts(effective_monotony, tss_7d_total, tss_28d_total) ==
    IF effective_monotony = None THEN <<>>
    ELSE LET deload_context ==
                 detect_deload_context(tss_7d_total, tss_28d_total)
         IN  IF Val(effective_monotony) >= 250
             THEN IF deload_context
                  THEN <<Alert("monotony", "info", 2, None)>>
                  ELSE <<Alert("monotony", "alarm", 2, None)>>
             ELSE IF Val(effective_monotony) >= 230
                  THEN IF deload_context
                       THEN <<Alert("monotony", "info", 2, None)>>
                       ELSE <<Alert("monotony", "warning", 2, None)>>
                  ELSE <<>>

strain_alerts(strain) ==
    IF strain # None /\ Val(strain) > 3500
    THEN <<Alert("strain", "alarm", 2, None)>> ELSE <<>>

recovery_index_alerts(ri) ==
    IF ri = None THEN <<>>
    ELSE IF Val(ri) < 60 THEN <<Alert("recovery_index", "alarm", 1, None)>>
         ELSE IF Val(ri) < 70
              THEN <<Alert("recovery_index", "warning", 1, None)>>
              ELSE <<>>

\* A plausible slip: escalation one day late (> 3 instead of > 2).
persistence_severity_late(days) == IF days > 3 THEN "alarm" ELSE "warning"

\* alarm when the violation persisted more than 2 days
persistence_severity(days) == IF days > 2 THEN "alarm" ELSE "warning"

\* hrv_change_pct = (latest - baseline) / baseline * 100 <= -20
hrv_alerts(latest_hrv, hrv_baseline_7d, wellness) ==
    IF Truthy(latest_hrv) /\ Truthy(hrv_baseline_7d) /\ Val(hrv_baseline_7d) > 0
    THEN IF 100 * (10 * Val(latest_hrv) - Val(hrv_baseline_7d))
               <= -20 * Val(hrv_baseline_7d)
         THEN LET hrv_low_days ==
                      count_hrv_low_days(wellness, Val(hrv_baseline_7d))
              IN  <<Alert("hrv", persistence_severity(hrv_low_days), 1,
                          Some(hrv_low_days))>>
         ELSE <<>>
    ELSE <<>>

\* rhr_change = latest - baseline >= 5
rhr_alerts(latest_rhr, rhr_baseline_7d, wellness) ==
    IF Truthy(latest_rhr) /\ Truthy(rhr_baseline_7d) /\ Val(rhr_baseline_7d) > 0
    THEN IF 10 * Val(latest_rhr) - Val(rhr_baseline_7d) >= 50
         THEN LET rhr_high_days ==
                      count_rhr_high_days(wellness, Val(rhr_baseline_7d))
              IN  <<Alert("rhr", persistence_severity(rhr_high_days), 1,
                          Some(rhr_high_days))>>
         ELSE <<>>
    ELSE <<>>

\* lines 1758-1802: an if/elif pair, then an independent if
durability_alerts(durability) ==
    LET dur_mean_7d == durability.mean_decoupling_7d
        dur_mean_28d == durability.mean_decoupling_28d
        first ==
            IF dur_mean_28d # None /\ Val(dur_mean_28d) > 500
            THEN <<Alert("durability", "alarm", 3, None)>>
            ELSE IF /\ durability.trend = "declining"
                    /\ dur_mean_7d # None
                    /\ dur_mean_28d # None
                    /\ Val(dur_mean_7d) - Val(dur_mean_28d) > 200
                 THEN <<Alert("durability", "warning", 3, None)>>
                 ELSE <<>>
        second ==
            IF durability.high_drift_count_7d >= 3
            THEN <<Alert("durability", "warning", 3, None)>>
            ELSE <<>>
    IN  first \o second

tid_alerts(tid_comparison) ==
    IF tid_comparison.drift = "acute_depolarization"
    THEN <<Alert("tid_distribution", "warning", 3, None)>>
    ELSE IF tid_comparison.drift = "shifting"
         THEN <<Alert("tid_distribution", "warning", 3, None)>>
         ELSE <<>>

\* severity_order = {"alarm": 0, "warning": 1, "info": 2}, 3 for anything else
severity_order(severity) ==
    CASE severity = "alarm" -> 0
      [] severity = "warning" -> 1
      [] severity = "info" -> 2
      [] OTHER -> 3

\* A plausible slip: the sort key's components swapped (severity, tier).
alert_key_leq_severity_first(a, b) ==
    \/ severity_order(a.severity) < severity_order(b.severity)
    \/ severity_order(a.severity) = severity_order(b.severity) /\ a.tier <= b.tier

\* key(a) <= key(b) for key = (tier, severity_order[severity])
alert_key_leq(a, b) ==
    \/ a.tier < b.tier
    \/ a.tier = b.tier /\ severity_order(a.severity) <= severity_order(b.severity)

\* list.sort(key=...) is stable: an element goes after those with an equal key
RECURSIVE insert_alert(_, _)
insert_alert(sorted, a) ==
    IF sorted = <<>> THEN <<a>>
    ELSE IF alert_key_leq(sorted[1], a)
         THEN <<sorted[1]>> \o insert_alert(Tail(sorted), a)
         ELSE <<a>> \o sorted

RECURSIVE sort_alerts(_)
sort_alerts(list) ==
    IF list = <<>> THEN <<>>
    ELSE insert_alert(sort_alerts(SubSeq(list, 1, Len(list) - 1)),
                      list[Len(list)])

generate_alerts(dm, wellness, tss_7d_total, tss_28d_total) ==
    sort_alerts(
        acwr_alerts(dm.acwr)
        \o monotony_alerts(dm.effective_monotony, tss_7d_total, tss_28d_total)
        \o strain_alerts(dm.strain)
        \o recovery_index_alerts(dm.recovery_index)
        \o hrv_alerts(dm.latest_hrv, dm.hrv_baseline_7d, wellness)
        \o rhr_alerts(dm.latest_rhr, dm.rhr_baseline_7d, wellness)
        \o durability_alerts(dm.capability.durability)
        \o tid_alerts(dm.capability.tid_comparison))

\* _generate_race_alerts
generate_race_alerts(rc) ==
    LET taper == IF rc.taper_alert.active
                 THEN <<Alert("race_taper", "info", 1, None)>> ELSE <<>>
        rw == rc.race_week
        week == IF rw.active
                THEN <<Alert("race_week", "info", 1, None)>> ELSE <<>>
        tsb == IF rw.active
               THEN IF /\ rw.projected_race_day_tsb # None
                       /\ 10 * rw.tsb_target_range.min
                             > Val(rw.projected_race_day_tsb)
                    THEN <<Alert("race_week_tsb", "warning", 1, None)>>
                    ELSE <<>>
               ELSE <<>>
    IN  taper \o week \o tsb

----------------------------------------------------------------------------
(* Phase detection: _detect_phase *)

\* Units: acwr, ri, monotony, tsb, ctl in hundredths; quality_intensity_pct
\* in tenths of a percent; strain and hard_days_per_week whole numbers.
\* "x and x > k" is false for None and for 0.
detect_phase(acwr, ri, quality_intensity_pct, hard_days_per_week, strain, monotony, tsb, ctl) ==
    LET t_acwr == Truthy(acwr) /\ Val(acwr) > 130
        t_strain == Truthy(strain) /\ Val(strain) > 3500
        t_ri == Truthy(ri) /\ Val(ri) < 60
        t_monotony == Truthy(monotony) /\ Val(monotony) > 250
        triggers == Cardinality({x \in {"acwr", "strain", "ri", "monotony"} :
                        \/ x = "acwr" /\ t_acwr
                        \/ x = "strain" /\ t_strain
                        \/ x = "ri" /\ t_ri
                        \/ x = "monotony" /\ t_monotony})
        build_by_time == /\ Truthy(quality_intensity_pct)
                         /\ 150 <= Val(quality_intensity_pct)
                         /\ Val(quality_intensity_pct) <= 250
        build_by_sessions == hard_days_per_week >= 2
        peak_by_time == /\ Truthy(quality_intensity_pct)
                        /\ Val(quality_intensity_pct) > 200
        peak_by_sessions == hard_days_per_week >= 3
    IN  IF triggers >= 2 \/ t_ri THEN "Overreached"
        ELSE IF Truthy(tsb) /\ Val(tsb) > 1000 THEN "Recovery"
        ELSE IF /\ Truthy(tsb) /\ Val(tsb) > 0 /\ Truthy(ctl)
                /\ 0 < Val(tsb) /\ Val(tsb) <= 1000 THEN "Taper"
        ELSE IF /\ Truthy(acwr) /\ 80 <= Val(acwr) /\ Val(acwr) <= 130
                /\ build_by_time \/ build_by_sessions THEN "Build"
        ELSE IF Truthy(acwr) /\ 80 <= Val(acwr) /\ Val(acwr) < 100 THEN "Base"
        ELSE IF /\ Truthy(acwr) /\ Val(acwr) >= 100
                /\ peak_by_time \/ peak_by_sessions THEN "Peak"
        ELSE "Indeterminate"

PhaseInputs ==
    [ acwr : {None, Some(0), Some(79), Some(80), Some(99), Some(100),
              Some(130), Some(131)},
      ri : {None, Some(0), Some(59), Some(60)},
      quality_intensity_pct : {None, Some(0), Some(149), Some(150), Some(200),
                               Some(201), Some(250), Some(251)},
      hard_days_per_week : 0..3,
      strain : {None, Some(0), Some(3501)},
      monotony : {None, Some(0), Some(251)},
      tsb : {None, Some(-500), Some(0), Some(1), Some(1000), Some(1001)},
      ctl : {None, Some(0), Some(5000)} ]

NoPhaseInputs ==
    [ acwr |-> None, ri |-> None, quality_intensity_pct |-> None,
      hard_days_per_week |-> 0, strain |-> None, monotony |-> None,
      tsb |-> None, ctl |-> None ]

PhaseIdle ==
    /\ phase_inputs = NoPhaseInputs
    /\ phase_detected = "none"

\* the call of lines 793-802
DetectPhase ==
    /\ pc = "phase"
    /\ phase_detected' =
           detect_phase(phase_inputs.acwr, phase_inputs.ri,
                        phase_inputs.quality_intensity_pct,
                        phase_inputs.hard_days_per_week, phase_inputs.strain,
                        phase_inputs.monotony, phase_inputs.tsb, phase_inputs.ctl)
    /\ pc' = "phase_done"
    /\ UNCHANGED <<ftp_vars, run_inputs, run_outputs, phase_inputs, tid_vars, race_vars, load_vars>>

----------------------------------------------------------------------------
(* Seiler TID: _build_seiler_tid, _classify_tid, _calculate_tid_comparison *)

\* A zone share z / total, in thousandths (exact for the zone seconds drawn).
Frac(z, total) == (1000 * z) \div total

\* round(math.log10(num / den), 2) in hundredths, held to the precision the
\* comparisons with 2.0 need: 199 stands for every value up to 1.99 and 201
\* for every value from 2.01 (10^1.995 = 98.855.., 10^2.005 = 101.158..).
Log10Round2(num, den) ==
    IF 1000 * num >= 101158 * den THEN 201
    ELSE IF 1000 * num < 98855 * den THEN 199
    ELSE 200

\* lines 1220-1246; shares in thousandths, raw = (z1 / effective_z2) * z3 * 100
\* is num / den with effective_z2 = 0.01 (10 thousandths) for z2 = 0.
calculate_polarization_index(z1_frac, z2_frac, z3_frac) ==
    IF z3_frac < 10 THEN None
    ELSE IF ~(z1_frac > z3_frac /\ z3_frac > z2_frac) THEN None
    ELSE LET effective_z2 == IF z2_frac > 0 THEN z2_frac ELSE 10
             num == z1_frac * z3_frac
             den == 10 * effective_z2
         IN  IF num <= 0 THEN None ELSE Some(Log10Round2(num, den))

\* A plausible slip: the Base rule tested after the Polarized and Pyramidal rules.
classify_tid_rule_base_late(z1_frac, z2_frac, z3_frac, pi) ==
    IF z1_frac > z3_frac /\ z3_frac > z2_frac /\ pi # None /\ Val(pi) > 200 THEN 2
    ELSE IF z1_frac > z2_frac /\ z2_frac > z3_frac THEN 3
    ELSE IF z3_frac < 10 /\ z1_frac >= z2_frac /\ z1_frac >= z3_frac THEN 1
    ELSE IF z2_frac >= z1_frac /\ z2_frac >= z3_frac THEN 4
    ELSE IF z3_frac >= z1_frac /\ z3_frac >= z2_frac THEN 5
    ELSE 6

\* lines 1260-1281: the number of the return statement reached, 6 the fallback
classify_tid_rule(z1_frac, z2_frac, z3_frac, pi) ==
    IF z3_frac < 10 /\ z1_frac >= z2_frac /\ z1_frac >= z3_frac THEN 1
    ELSE IF z1_frac > z3_frac /\ z3_frac > z2_frac /\ pi # None /\ Val(pi) > 200 THEN 2
    ELSE IF z1_frac > z2_frac /\ z2_frac > z3_frac THEN 3
    ELSE IF z2_frac >= z1_frac /\ z2_frac >= z3_frac THEN 4
    ELSE IF z3_frac >= z1_frac /\ z3_frac >= z2_frac THEN 5
    ELSE 6

\* the label each return statement of lines 1260-1281 gives
tid_labels == <<"Base", "Polarized", "Pyramidal", "Threshold", "High Intensity", "Pyramidal">>

\* lines 1248-1281
classify_tid(z1_frac, z2_frac, z3_frac, pi) ==
    tid_labels[classify_tid_rule(z1_frac, z2_frac, z3_frac, pi)]

\* lines 1283-1325; zones is what _aggregate_seiler_zones returned.
\* The z*_pct figures are in tenths of a percent.
build_seiler_tid(zones) ==
    LET total == zones.z1_seconds + zones.z2_seconds + zones.z3_seconds
    IN  IF total = 0
        THEN [ z1_seconds |-> 0, z2_seconds |-> 0, z3_seconds |-> 0,
               z1_pct |-> None, z2_pct |-> None, z3_pct |-> None,
               polarization_index |-> None, classification |-> None ]
        ELSE LET z1_frac == Frac(zones.z1_seconds, total)
                 z2_frac == Frac(zones.z2_seconds, total)
                 z3_frac == Frac(zones.z3_seconds, total)
                 pi == calculate_polarization_index(z1_frac, z2_frac, z3_frac)
             IN  [ z1_seconds |-> zones.z1_seconds,
                   z2_seconds |-> zones.z2_seconds,
                   z3_seconds |-> zones.z3_seconds,
                   z1_pct |-> Some(RoundDiv(1000 * zones.z1_seconds, total)),
                   z2_pct |-> Some(RoundDiv(1000 * zones.z2_seconds, total)),
                   z3_pct |-> Some(RoundDiv(1000 * zones.z3_seconds, total)),
                   polarization_index |-> pi,
                   classification |-> Some(classify_tid(z1_frac, z2_frac, z3_frac, pi)) ]

\* A plausible slip: the classifications compared before the PI test.
tid_drift_shifting_first(cls_7d, cls_28d, pi_7d, pi_28d) ==
    IF cls_7d = None \/ cls_28d = None THEN "none"
    ELSE IF cls_7d # cls_28d THEN "shifting"
    ELSE IF pi_7d # None /\ pi_28d # None /\ Val(pi_7d) < 200 /\ Val(pi_28d) >= 200
    THEN "acute_depolarization"
    ELSE "consistent"

\* lines 1421-1448: the drift of the comparison ("none" is Python None)
tid_drift(cls_7d, cls_28d, pi_7d, pi_28d) ==
    IF cls_7d = None \/ cls_28d = None THEN "none"
    ELSE IF pi_7d # None /\ pi_28d # None /\ Val(pi_7d) < 200 /\ Val(pi_28d) >= 200
    THEN "acute_depolarization"
    ELSE IF cls_7d # cls_28d THEN "shifting"
    ELSE "consistent"

\* lines 1404-1464 (pi_delta, a reported difference no decision reads, is left out)
calculate_tid_comparison(tid_7d, tid_28d) ==
    [ classification_7d |-> tid_7d.classification,
      classification_28d |-> tid_28d.classification,
      pi_7d |-> tid_7d.polarization_index,
      pi_28d |-> tid_28d.polarization_index,
      drift |-> tid_drift(tid_7d.classification, tid_28d.classification,
                          tid_7d.polarization_index, tid_28d.polarization_index) ]

Zones(z1, z2, z3) == [z1_seconds |-> z1, z2_seconds |-> z2, z3_seconds |-> z3]

NoZones == Zones(0, 0, 0)

\* Seiler zone seconds of a window: no zone data, or 1000 seconds split
\* to reach every rule, the ties between zones and the PI values around 2.0.
ZoneSplits ==
    { NoZones,
      Zones(900, 92, 8), Zones(992, 0, 8), Zones(496, 496, 8), Zones(400, 592, 8),
      Zones(900, 90, 10), Zones(990, 0, 10), Zones(980, 0, 20), Zones(900, 0, 100),
      Zones(800, 50, 150), Zones(600, 148, 252), Zones(600, 150, 250),
      Zones(500, 200, 300), Zones(600, 300, 100), Zones(800, 100, 100),
      Zones(300, 500, 200), Zones(400, 400, 200), Zones(200, 300, 500),
      Zones(400, 200, 400) }

\* the 28-day window holds the 7-day one
zones_28d(zi) ==
    Zones(zi.recent.z1_seconds + zi.older.z1_seconds,
          zi.recent.z2_seconds + zi.older.z2_seconds,
          zi.recent.z3_seconds + zi.older.z3_seconds)

NoTid ==
    [ z1_seconds |-> 0, z2_seconds |-> 0, z3_seconds |-> 0,
      z1_pct |-> None, z2_pct |-> None, z3_pct |-> None,
      polarization_index |-> None, classification |-> None ]

TidIdle ==
    /\ zone_inputs = [recent |-> NoZones, older |-> NoZones]
    /\ seiler_tid_7d = NoTid
    /\ seiler_tid_28d = NoTid
    /\ tid_drift_report = <<>>

\* lines 701 and 721
BuildSeilerTid ==
    /\ pc = "zones"
    /\ seiler_tid_7d' = build_seiler_tid(zone_inputs.recent)
    /\ seiler_tid_28d' = build_seiler_tid(zones_28d(zone_inputs))
    /\ pc' = "tid_built"
    /\ UNCHANGED <<ftp_vars, run_inputs, run_outputs, phase_vars, race_vars, load_vars>>
    /\ UNCHANGED <<zone_inputs, tid_drift_report>>

\* line 736
CalculateTidComparison ==
    /\ pc = "tid_built"
    /\ tid_drift_report' = calculate_tid_comparison(seiler_tid_7d, seiler_tid_28d)
    /\ pc' = "tid_compared"
    /\ UNCHANGED <<ftp_vars, run_inputs, run_outputs, phase_vars, race_vars, load_vars>>
    /\ UNCHANGED <<zone_inputs, seiler_tid_7d, seiler_tid_28d>>

NextTid == BuildSeilerTid \/ CalculateTidComparison

----------------------------------------------------------------------------
(* Race calendar: _build_race_calendar, _build_race_week, _get_day_protocol *)
(* Dates are day numbers; CTL, ATL and TSB are in tenths of a point.        *)

days_back == 7

LastDay == 19

Event(category, date, moving_time) ==
    [category |-> category, date |-> date, moving_time |-> moving_time]

Activity(date, load) == [date |-> date, icu_training_load |-> load]

\* lines 378 and 317-318: what collect_training_data hands to the calendar
future_events_of(evts, t) == SelectSeq(evts, LAMBDA e : e.date >= t)

activities_display_of(acts, t) ==
    SelectSeq(acts, LAMBDA a : a.date >= t - (days_back - 1) /\ a.date <= t)

\* lines 2896-2918: the race events dated today or later
RECURSIVE race_events_of(_, _)
race_events_of(evts, today_date) ==
    IF evts = <<>> THEN <<>>
    ELSE LET evt == Head(evts)
             days_until == evt.date - today_date
             rest == race_events_of(Tail(evts), today_date)
         IN  IF evt.category \in {"RACE_A", "RACE_B", "RACE_C"} /\ days_until >= 0
             THEN << [ date |-> evt.date, category |-> evt.category,
                       days_until |-> days_until,
                       moving_time_seconds |-> evt.moving_time ] >> \o rest
             ELSE rest

\* line 2921: race_events.sort(key=days_until), a stable sort
RECURSIVE insert_race(_, _)
insert_race(r, sorted) ==
    IF sorted = <<>> THEN <<r>>
    ELSE IF r.days_until < Head(sorted).days_until THEN <<r>> \o sorted
    ELSE <<Head(sorted)>> \o insert_race(r, Tail(sorted))

RECURSIVE sort_races(_)
sort_races(rs) ==
    IF rs = <<>> THEN <<>>
    ELSE insert_race(rs[Len(rs)], sort_races(SubSeq(rs, 1, Len(rs) - 1)))

\* (ctl_decay ** d, atl_decay ** d) for d = 0..8 in millionths:
\* math.exp(-1/42) and math.exp(-1/7) multiplied d times (lines 3017-3024)
ctl_decay_pow == <<1000000, 976472, 953497, 931063, 909156, 887766, 866878, 846482, 826565>>

atl_decay_pow == <<1000000, 866878, 751477, 651439, 564718, 489542, 424373, 367879, 318907>>

\* lines 3016-3025: projected race-day TSB in tenths
projected_tsb_of(ctl, atl, days_until) ==
    LET proj_ctl == IF Truthy(ctl) THEN Val(ctl) ELSE 0
        proj_atl == IF Truthy(atl) THEN Val(atl) ELSE 0
    IN  RoundDiv(proj_ctl * ctl_decay_pow[days_until + 1]
                   - proj_atl * atl_decay_pow[days_until + 1], 1000000)

\* A plausible slip: the class bounds taken one second off.
duration_class_of_strict(moving_time, category) ==
    IF moving_time # None
    THEN IF Val(moving_time) <= 5400 THEN "short_intense"
         ELSE IF Val(moving_time) < 10800 THEN "medium"
         ELSE "long_endurance"
    ELSE IF category = "RACE_A" THEN "long_endurance" ELSE "medium"

\* lines 3027-3037
duration_class_of(moving_time, category) ==
    IF moving_time # None
    THEN IF Val(moving_time) < 5400 THEN "short_intense"
         ELSE IF Val(moving_time) <= 10800 THEN "medium"
         ELSE "long_endurance"
    ELSE IF category = "RACE_A" THEN "long_endurance" ELSE "medium"

IntMax(a, b) == IF a >= b THEN a ELSE b

\* lines 3039-3049
tsb_range_of(duration_class, category) ==
    LET tsb_range ==
            CASE duration_class = "short_intense" -> [min |-> 5, max |-> 15]
              [] duration_class = "medium" -> [min |-> 10, max |-> 20]
              [] OTHER -> [min |-> 10, max |-> 25]
    IN  IF category = "RACE_B"
        THEN [min |-> IntMax(0, tsb_range.min - 5), max |-> tsb_range.max - 5]
        ELSE tsb_range

\* lines 3126-3135: (label, min_pct, max_pct) in hundredths, for D-0..D-7
protocols ==
    [ d \in 0..7 |->
        CASE d = 7 -> <<"Last key session", 75, 100>>
          [] d = 6 -> <<"Recovery", 0, 30>>
          [] d = 5 -> <<"Moderate endurance", 40, 60>>
          [] d = 4 -> <<"Easy / rest", 0, 40>>
          [] d = 3 -> <<"Easy / rest", 0, 40>>
          [] d = 2 -> <<"Opener", 30, 50>>
          [] d = 1 -> <<"Rest / minimal", 0, 20>>
          [] d = 0 -> <<"Race day", 0, 0>> ]

\* lines 3148-3155: the zone guidance of the D-2 opener
opener_zones(duration_class) ==
    CASE duration_class = "long_endurance" -> "Z4 only"
      [] duration_class = "short_intense" -> "Z4-Z6 short"
      [] OTHER -> "Z4-Z6"

\* A plausible slip: the long-event nudge of the minimum left out.
get_day_protocol_no_nudge(days_until, ctl, duration_class, category) ==
    IF days_until > 7
    THEN [label |-> "Pre-race-week", load_target_tss |-> None, opener |-> None]
    ELSE LET p == IF days_until \in DOMAIN protocols
                  THEN protocols[days_until] ELSE protocols[0]
         IN  [ label |-> p[1],
               load_target_tss |->
                   Some([min |-> RoundDiv(ctl * p[2], 1000),
                         max |-> RoundDiv(ctl * p[3], 1000)]),
               opener |-> IF days_until = 2 THEN Some(opener_zones(duration_class))
                          ELSE None ]

\* lines 3120-3170; ctl in tenths, the load band in whole TSS
get_day_protocol(days_until, ctl, duration_class, category) ==
    IF days_until > 7
    THEN [label |-> "Pre-race-week", load_target_tss |-> None, opener |-> None]
    ELSE LET p == IF days_until \in DOMAIN protocols
                  THEN protocols[days_until] ELSE protocols[0]
             min_pct == IF days_until \in {3, 4} /\ duration_class = "long_endurance"
                        THEN 20 ELSE p[2]
         IN  [ label |-> p[1],
               load_target_tss |->
                   Some([min |-> RoundDiv(ctl * min_pct, 1000),
                         max |-> RoundDiv(ctl * p[3], 1000)]),
               opener |-> IF days_until = 2 THEN Some(opener_zones(duration_class))
                          ELSE None ]

\* round() of normal_weekly_tss * 0.55: the double 0.55 lies above 11/20, so
\* the product of an exact half rounds up (350.0 * 0.55 = 192.50000000000003).
RoundDivHalfUp(n, d) == (2 * n + d) \div (2 * d)

\* lines 2989-3000; normal_weekly_tss in tenths, the budget in whole TSS
race_week_budget(ctl_baseline, category) ==
    LET normal_weekly_tss == ctl_baseline * 7
    IN  IF category = "RACE_A"
        THEN [ normal_weekly_tss |-> normal_weekly_tss,
               min |-> RoundDiv(normal_weekly_tss * 40, 1000),
               max |-> RoundDivHalfUp(normal_weekly_tss * 55, 1000) ]
        ELSE [ normal_weekly_tss |-> normal_weekly_tss,
               min |-> RoundDiv(normal_weekly_tss * 50, 1000),
               max |-> RoundDiv(normal_weekly_tss * 65, 1000) ]

\* lines 3002-3014: the load of the activities handed over that are dated
\* within [race date - 7, today]
RECURSIVE tss_spent_of(_, _, _)
tss_spent_of(activities_7d, evt_date, today_date) ==
    IF activities_7d = <<>> THEN 0
    ELSE LET act == Head(activities_7d)
             rest == tss_spent_of(Tail(activities_7d), evt_date, today_date)
         IN  IF evt_date - 7 <= act.date /\ act.date <= today_date
             THEN (IF Truthy(act.icu_training_load)
                   THEN Val(act.icu_training_load) ELSE 0) + rest
             ELSE rest

\* A plausible slip: carbohydrate loading on the D-4 day only.
carb_loading_d4_only(moving_time, category, days_until) ==
    LET carb_applicable ==
            IF moving_time # None THEN Val(moving_time) >= 5400
            ELSE category = "RACE_A"
    IN  [ applicable |-> carb_applicable,
          active |-> carb_applicable /\ days_until = 4 ]

\* lines 3054-3061
carb_loading(moving_time, category, days_until) ==
    LET carb_applicable ==
            IF moving_time # None THEN Val(moving_time) >= 5400
            ELSE category = "RACE_A"
    IN  [ applicable |-> carb_applicable,
          active |-> carb_applicable /\ days_until <= 4 ]

\* A plausible slip: the escalated wording from a shortfall of 10 on.
go_no_go_escalates_at_ten(projected_tsb, tsb_range) ==
    IF projected_tsb >= 10 * tsb_range.min
    THEN [tsb_status |-> "green", notes |-> <<>>]
    ELSE IF projected_tsb > 10 * (tsb_range.min - 10)
    THEN [tsb_status |-> "flag", notes |-> <<"below target range">>]
    ELSE [tsb_status |-> "flag", notes |-> <<"significantly below target range">>]

\* lines 3070-3079; projected_tsb in tenths, the range in whole points
go_no_go(projected_tsb, tsb_range) ==
    IF projected_tsb >= 10 * tsb_range.min
    THEN [tsb_status |-> "green", notes |-> <<>>]
    ELSE IF projected_tsb >= 10 * (tsb_range.min - 10)
    THEN [tsb_status |-> "flag", notes |-> <<"below target range">>]
    ELSE [tsb_status |-> "flag", notes |-> <<"significantly below target range">>]

\* lines 2968-3118
build_race_week(race_event, ctl, atl, activities_7d, today_date) ==
    LET evt_date == race_event.date
        days_until == race_event.days_until
        category == race_event.category
        moving_time == race_event.moving_time_seconds
        ctl_baseline == IF Truthy(ctl) THEN Val(ctl) ELSE 0
        budget == race_week_budget(ctl_baseline, category)
        tss_spent == tss_spent_of(activities_7d, evt_date, today_date)
        projected_tsb == projected_tsb_of(ctl, atl, days_until)
        duration_class == duration_class_of(moving_time, category)
        tsb_range == tsb_range_of(duration_class, category)
    IN  [ active |-> TRUE,
          event_date |-> evt_date,
          event_category |-> category,
          event_duration_class |-> duration_class,
          event_moving_time_seconds |-> moving_time,
          days_until_event |-> days_until,
          current_day |-> IF days_until > 0 THEN "D-" \o ToString(days_until) ELSE "D-0",
          ctl_baseline |-> ctl_baseline,
          normal_weekly_tss |-> budget.normal_weekly_tss,
          race_week_tss_budget |-> [min |-> budget.min, max |-> budget.max],
          race_week_tss_spent |-> tss_spent,
          race_week_tss_remaining |->
              [ min |-> IntMax(0, budget.min - tss_spent),
                max |-> IntMax(0, budget.max - tss_spent) ],
          projected_race_day_tsb |-> Some(projected_tsb),
          tsb_target_range |-> tsb_range,
          today |-> get_day_protocol(days_until, ctl_baseline, duration_class, category),
          carb_loading |-> carb_loading(moving_time, category, days_until),
          opener |-> [ intensity |->
                         IF duration_class = "long_endurance" THEN "lighter"
                         ELSE IF duration_class = "short_intense" THEN "more_intense"
                         ELSE "standard" ],
          go_no_go |-> go_no_go(projected_tsb, tsb_range) ]

\* A plausible slip: the nearest candidate taken whatever its tier.
race_week_target_nearest(race_events) ==
    LET race_week_candidates ==
            SelectSeq(race_events, LAMBDA r : r.category \in {"RACE_A", "RACE_B"}
                                              /\ r.days_until <= 7)
    IN  IF race_week_candidates = <<>> THEN None
        ELSE Some(race_week_candidates[1])

\* lines 2942-2948
race_week_target(race_events) ==
    LET race_week_candidates ==
            SelectSeq(race_events, LAMBDA r : r.category \in {"RACE_A", "RACE_B"}
                                              /\ r.days_until <= 7)
        a_races == SelectSeq(race_week_candidates, LAMBDA r : r.category = "RACE_A")
    IN  IF race_week_candidates = <<>> THEN None
        ELSE IF a_races # <<>> THEN Some(a_races[1])
        ELSE Some(race_week_candidates[1])

\* A plausible slip: the taper window reaching into race week.
taper_alert_of_from_d7(race_events) ==
    LET tapers == SelectSeq(race_events, LAMBDA r : r.category = "RACE_A"
                                           /\ 7 <= r.days_until /\ r.days_until <= 14)
    IN  IF tapers = <<>> THEN [active |-> FALSE]
        ELSE [ active |-> TRUE, event_date |-> tapers[1].date,
               days_until |-> tapers[1].days_until ]

\* lines 2929-2940
taper_alert_of(race_events) ==
    LET tapers == SelectSeq(race_events, LAMBDA r : r.category = "RACE_A"
                                           /\ 8 <= r.days_until /\ r.days_until <= 14)
    IN  IF tapers = <<>> THEN [active |-> FALSE]
        ELSE [ active |-> TRUE, event_date |-> tapers[1].date,
               days_until |-> tapers[1].days_until ]

\* lines 2879-2966
build_race_calendar(future_evts, ctl, atl, activities_7d, today_date) ==
    LET race_events == sort_races(race_events_of(future_evts, today_date))
        target == race_week_target(race_events)
    IN  [ next_race |-> IF race_events = <<>> THEN None ELSE Some(race_events[1]),
          all_races |-> race_events,
          taper_alert |-> taper_alert_of(race_events),
          race_week |-> IF target = None THEN [active |-> FALSE]
                        ELSE build_race_week(Val(target), ctl, atl,
                                             activities_7d, today_date) ]

\* race durations in seconds around the class bounds of 90 and 180 minutes
RaceDurations == {None, Some(0), Some(5399), Some(5400), Some(10800), Some(10801)}

\* The calendar: no event, one event of any category and duration on day 16,
\* or two races in either list order (tier B of 2 hours, tier A without duration).
EventLists ==
    { <<>>, <<Event("WORKOUT", 16, None)>>, <<Event("RACE_C", 16, None)>> }
    \cup { <<Event(c, 16, m)>> : c \in {"RACE_A", "RACE_B"}, m \in RaceDurations }
    \cup { <<Event("RACE_B", 14, Some(7200)), Event("RACE_A", 16, None)>>,
           <<Event("RACE_A", 16, None), Event("RACE_B", 14, Some(7200))>>,
           <<Event("RACE_A", 16, None), Event("RACE_A", 18, None)>>,
           <<Event("RACE_A", 18, None), Event("RACE_A", 16, None)>>,
           <<Event("RACE_B", 16, Some(7200)), Event("RACE_B", 13, Some(7200))>>,
           <<Event("RACE_C", 14, None), Event("RACE_B", 16, Some(7200))>>,
           <<Event("RACE_B", 13, Some(7200)), Event("RACE_A", 17, None)>>,
           <<Event("RACE_A", 16, None), Event("RACE_B", 16, Some(7200))>>,
           <<Event("RACE_B", 16, Some(7200)), Event("RACE_A", 16, None)>> }

\* CTL and ATL of the day in tenths; they put the projected race-day TSB on
\* both sides of the target minimum and of the 10-point shortfall.
CtlValues == {None, Some(500), Some(555)}

AtlValues == {None, Some(400), Some(401), Some(500), Some(501)}

\* the athlete's activities (date, load), oldest first
ActivityLists ==
    { <<>>, <<Activity(9, Some(100))>>,
      <<Activity(8, Some(50)), Activity(12, Some(80))>>,
      <<Activity(12, None), Activity(16, Some(300))>>,
      <<Activity(10, Some(100)), Activity(15, Some(60))>> }

RaceIdle ==
    /\ events = <<>>
    /\ current_ctl = None
    /\ current_atl = None
    /\ activities_extended = <<>>

\* lines 451-460: one run's race calendar
BuildRaceCalendar ==
    /\ pc = "race"
    /\ race_calendar' =
           build_race_calendar(future_events_of(events, today), current_ctl, current_atl,
                               activities_display_of(activities_extended, today), today)
    /\ pc' = "race_built"
    /\ UNCHANGED <<ftp_vars, wellness_older, wellness_7d, load_inputs, capability_inputs>>
    /\ UNCHANGED <<run_outputs, phase_vars, tid_vars, race_vars, load_vars>>

\* The next run is on the next calendar day.
RaceNextDay ==
    /\ pc = "race_built"
    /\ today < LastDay
    /\ today' = today + 1
    /\ pc' = "race"
    /\ UNCHANGED <<history, current_ftp_indoor, current_ftp_outdoor>>
    /\ UNCHANGED <<run_inputs, run_outputs, phase_vars, tid_vars, race_vars, load_vars>>

NextRace == BuildRaceCalendar \/ RaceNextDay

----------------------------------------------------------------------------
(* Daily loads: _get_daily_tss, _get_daily_tss_by_sport and the load metrics
   of _calculate_derived_metrics *)

days_for_acwr == 28

\* SPORT_FAMILIES (lines 56-74)
SPORT_FAMILIES ==
    [ t \in {"Ride", "VirtualRide", "MountainBikeRide", "GravelRide", "EBikeRide",
             "VirtualSki", "NordicSki", "Walk", "Hike", "Run", "VirtualRun",
             "TrailRun", "Swim", "Rowing", "WeightTraining", "Yoga", "Workout"} |->
        CASE t \in {"Ride", "VirtualRide", "MountainBikeRide", "GravelRide",
                    "EBikeRide"} -> "cycling"
          [] t \in {"VirtualSki", "NordicSki"} -> "ski"
          [] t \in {"Walk", "Hike"} -> "walk"
          [] t \in {"Run", "VirtualRun", "TrailRun"} -> "run"
          [] t = "Swim" -> "swim"
          [] t = "Rowing" -> "rowing"
          [] t = "WeightTraining" -> "strength"
          [] OTHER -> "other" ]

\* An activity of the API.  start_date_local is None for a record without a
\* date (the code reads ""), type is None for a record without a type.
SportActivity(date, load, type) ==
    [start_date_local |-> date, icu_training_load |-> load, type |-> type]

\* lines 317-318: the display window starts days_back - 1 days before today
\* ("" sorts before every date)
recent_activities_of(acts, now) ==
    SelectSeq(acts, LAMBDA a : /\ a.start_date_local # None
                               /\ Val(a.start_date_local) >= now - (days_back - 1))

\* act.get("icu_training_load") or 0
tss_of(act) ==
    IF Truthy(act.icu_training_load) THEN Val(act.icu_training_load) ELSE 0

\* daily_tss[date] of lines 1042-1047
RECURSIVE day_tss(_, _)
day_tss(activities, date) ==
    IF activities = <<>> THEN 0
    ELSE (IF Head(activities).start_date_local = Some(date)
          THEN tss_of(Head(activities)) ELSE 0) + day_tss(Tail(activities), date)

\* A plausible slip: the window ends yesterday, range(days, 0, -1).
get_daily_tss_until_yesterday(activities, days, now) ==
    [i \in 1..days |-> day_tss(activities, now - (days - i) - 1)]

\* lines 1049-1055: the last `days` days, oldest first, today last
get_daily_tss(activities, days, now) ==
    [i \in 1..days |-> day_tss(activities, now - (days - i))]

\* self.SPORT_FAMILIES.get(act.get("type", "Unknown"), "other")
sport_family_of(act) ==
    LET activity_type == IF act.type = None THEN "Unknown" ELSE Val(act.type)
    IN  IF activity_type \in DOMAIN SPORT_FAMILIES
        THEN SPORT_FAMILIES[activity_type] ELSE "other"

\* the keys of sport_daily_tss in insertion order (lines 1068-1075)
RECURSIVE sport_families_seen(_)
sport_families_seen(activities) ==
    IF activities = <<>> THEN <<>>
    ELSE LET act == activities[Len(activities)]
             seen == sport_families_seen(SubSeq(activities, 1, Len(activities) - 1))
         IN  IF tss_of(act) <= 0
                \/ \E k \in 1..Len(seen) : seen[k] = sport_family_of(act)
             THEN seen
             ELSE Append(seen, sport_family_of(act))

\* sport_daily_tss[sport_family][date]
RECURSIVE sport_day_tss(_, _, _)
sport_day_tss(activities, sport_family, date) ==
    IF activities = <<>> THEN 0
    ELSE LET act == Head(activities)
         IN  (IF /\ tss_of(act) > 0
                 /\ sport_family_of(act) = sport_family
                 /\ act.start_date_local = Some(date)
              THEN tss_of(act) ELSE 0)
             + sport_day_tss(Tail(activities), sport_family, date)

\* lines 1077-1086: the dict as the sequence of its items
get_daily_tss_by_sport(activities, days, now) ==
    LET seen == sport_families_seen(activities)
    IN  [k \in 1..Len(seen) |->
            [sport_family |-> seen[k],
             daily |-> [i \in 1..days |->
                           sport_day_tss(activities, seen[k], now - (days - i))]]]

RECURSIVE SumSq(_)
SumSq(s) == IF s = <<>> THEN 0 ELSE s[1] * s[1] + SumSq(Tail(s))

RECURSIVE GCD(_, _)
GCD(a, b) == IF b = 0 THEN a ELSE GCD(b, a % b)

\* the largest r in lo..hi with r * r <= k
RECURSIVE ISqrtBetween(_, _, _)
ISqrtBetween(k, lo, hi) ==
    IF lo = hi THEN lo
    ELSE LET mid == (lo + hi + 1) \div 2
         IN  IF mid * mid <= k THEN ISqrtBetween(k, mid, hi)
             ELSE ISqrtBetween(k, lo, mid - 1)

\* n * (n - 1) times the sample variance of statistics.stdev: positive
\* exactly when the standard deviation is
ScaledVariance(daily) ==
    Len(daily) * SumSq(daily) - SeqSum(daily) * SeqSum(daily)

\* round(mean / stdev, 2) in hundredths for a series with stdev > 0:
\* (mean / stdev)^2 = sum^2 * (n - 1) / (n * ScaledVariance)
mean_over_stdev(daily) ==
    LET num == SeqSum(daily) * SeqSum(daily) * (Len(daily) - 1)
        den == Len(daily) * ScaledVariance(daily)
        a == num \div GCD(num, den)
        b == den \div GCD(num, den)
        m == (ISqrtBetween((40000 * a) \div b, 0, 46340) + 1) \div 2
    IN  IF (2 * m - 1) * (2 * m - 1) * b = 40000 * a /\ m % 2 = 1
        THEN m - 1 ELSE m

\* A plausible slip: the three-active-days rule of the primary sport applied
\* to the total series.
monotony_of_three_active_days(daily_tss_7d) ==
    IF Cardinality({i \in 1..Len(daily_tss_7d) : daily_tss_7d[i] > 0}) >= 3
       /\ ScaledVariance(daily_tss_7d) > 0
    THEN Some(mean_over_stdev(daily_tss_7d))
    ELSE None

\* lines 583-592
monotony_of(daily_tss_7d) ==
    IF Len(daily_tss_7d) > 1 /\ \E i \in 1..Len(daily_tss_7d) : daily_tss_7d[i] # 0
    THEN IF ScaledVariance(daily_tss_7d) > 0
         THEN Some(mean_over_stdev(daily_tss_7d))
         ELSE None
    ELSE None

\* max(sport_totals, key=sport_totals.get): the position of the first family
\* with the highest 7-day total (lines 605-606)
primary_sport_of(daily_tss_by_sport) ==
    CHOOSE k \in 1..Len(daily_tss_by_sport) :
        /\ \A j \in 1..Len(daily_tss_by_sport) :
               SeqSum(daily_tss_by_sport[j].daily) <= SeqSum(daily_tss_by_sport[k].daily)
        /\ \A j \in 1..(k - 1) :
               SeqSum(daily_tss_by_sport[j].daily) < SeqSum(daily_tss_by_sport[k].daily)

\* lines 603-619
primary_sport_monotony_of(daily_tss_by_sport) ==
    IF daily_tss_by_sport = <<>> THEN None
    ELSE LET primary_days == daily_tss_by_sport[primary_sport_of(daily_tss_by_sport)].daily
             active_days == Cardinality({i \in 1..Len(primary_days) : primary_days[i] > 0})
         IN  IF active_days >= 3 /\ Len(primary_days) > 1
             THEN IF ScaledVariance(primary_days) > 0
                  THEN Some(mean_over_stdev(primary_days))
                  ELSE None
             ELSE None

\* lines 566-632 of _calculate_derived_metrics
calculate_load_metrics(activities_7d, activities_28d, now) ==
    LET daily_tss_7d == get_daily_tss(activities_7d, 7, now)
        daily_tss_28d == get_daily_tss(activities_28d, 28, now)
        daily_tss_by_sport == get_daily_tss_by_sport(activities_7d, 7, now)
        monotony == monotony_of(daily_tss_7d)
        primary_sport_monotony == primary_sport_monotony_of(daily_tss_by_sport)
        is_multi_sport == Len(daily_tss_by_sport) > 1
    IN  [ daily_tss_7d |-> daily_tss_7d,
          daily_tss_28d |-> daily_tss_28d,
          daily_tss_by_sport |-> daily_tss_by_sport,
          tss_7d_total |-> SeqSum(daily_tss_7d),
          tss_28d_total |-> SeqSum(daily_tss_28d),
          acwr |-> acwr_of(SeqSum(daily_tss_7d), SeqSum(daily_tss_28d)),
          monotony |-> monotony,
          primary_sport |->
              IF daily_tss_by_sport = <<>> THEN None
              ELSE Some(daily_tss_by_sport[primary_sport_of(daily_tss_by_sport)].sport_family),
          primary_sport_monotony |-> primary_sport_monotony,
          multi_sport_detected |-> is_multi_sport,
          effective_monotony |->
              effective_monotony_of(is_multi_sport, primary_sport_monotony, monotony) ]

\* the weeks of rides: a ride of 50 or 100 or no ride on each of the 7 days
RECURSIVE rides_of(_, _)
rides_of(loads, now) ==
    IF loads = <<>> THEN <<>>
    ELSE rides_of(SubSeq(loads, 1, Len(loads) - 1), now - 1)
         \o (IF loads[Len(loads)] = 0 THEN <<>>
             ELSE <<SportActivity(Some(now), Some(loads[Len(loads)]), Some("Ride"))>>)

RideWeeks == [1..7 -> {0, 50, 100}]

\* the other records of the last 7 days (today is day 28): none, a run on
\* every other day, one long run today, and records of an unmapped type,
\* without a type, without a load and with a zero load
CrossTraining ==
    { <<>>,
      <<SportActivity(Some(23), Some(50), Some("Run")),
        SportActivity(Some(25), Some(50), Some("Run")),
        SportActivity(Some(27), Some(50), Some("Run"))>>,
      <<SportActivity(Some(28), Some(100), Some("Run"))>>,
      <<SportActivity(Some(28), Some(100), Some("Kayaking")),
        SportActivity(Some(27), None, Some("Ride")),
        SportActivity(Some(26), Some(0), Some("Yoga")),
        SportActivity(Some(25), Some(50), None)>> }

\* the records of the 21 days before: none, three rides, and a record without
\* a date with two sessions on one day
OlderActivities ==
    { <<>>,
      <<SportActivity(Some(5), Some(150), Some("Ride")),
        SportActivity(Some(10), Some(150), Some("Ride")),
        SportActivity(Some(15), Some(150), Some("Ride"))>>,
      <<SportActivity(None, Some(70), Some("Ride")),
        SportActivity(Some(14), Some(200), Some("Run")),
        SportActivity(Some(14), Some(100), Some("Ride"))>> }

LoadIdle ==
    /\ activity_log = <<>>
    /\ planned_events = <<>>
    /\ load_report = <<>>
    /\ durability_report = <<>>
    /\ consistency_report = <<>>

\* lines 417-433 with the load metrics of lines 566-632
CalculateLoadMetrics ==
    /\ pc = "load"
    /\ load_report' =
           calculate_load_metrics(recent_activities_of(activity_log, today),
                                  activity_log, today)
    /\ pc' = "load_done"
    /\ UNCHANGED <<ftp_vars, run_inputs, run_outputs, phase_vars, tid_vars, race_vars>>
    /\ UNCHANGED <<activity_log, planned_events, durability_report, consistency_report>>

----------------------------------------------------------------------------
(* Durability: _calculate_durability *)

\* An activity as _calculate_durability reads it: the two decoupling keys in
\* hundredths of a point, the variability index in hundredths, seconds.
DurabilitySession(date, icu_hr_decoupling, decoupling, vi, moving_time) ==
    [start_date_local |-> Some(date), icu_hr_decoupling |-> icu_hr_decoupling,
     decoupling |-> decoupling, icu_variability_index |-> vi,
     moving_time |-> moving_time]

\* lines 1347-1362: the decoupling values of the qualifying sessions
filter_qualifying(activities) ==
    LET dec(act) == IF Truthy(act.icu_hr_decoupling)
                    THEN act.icu_hr_decoupling ELSE act.decoupling
        mt(act) == IF Truthy(act.moving_time) THEN Val(act.moving_time) ELSE 0
        qualifying == SelectSeq(activities, LAMBDA act :
                          /\ dec(act) # None
                          /\ act.icu_variability_index # None
                          /\ Val(act.icu_variability_index) > 0
                          /\ Val(act.icu_variability_index) <= 105
                          /\ mt(act) >= 5400)
    IN  [k \in 1..Len(qualifying) |-> Val(dec(qualifying[k]))]

\* lines 1364-1402
calculate_durability(activities_7d, activities_28d) ==
    LET vals_7d == filter_qualifying(activities_7d)
        vals_28d == filter_qualifying(activities_28d)
        mean_7d == IF Len(vals_7d) >= 2
                   THEN Some(RoundDiv(SeqSum(vals_7d), Len(vals_7d))) ELSE None
        mean_28d == IF Len(vals_28d) >= 2
                    THEN Some(RoundDiv(SeqSum(vals_28d), Len(vals_28d))) ELSE None
    IN  [ mean_decoupling_7d |-> mean_7d,
          mean_decoupling_28d |-> mean_28d,
          high_drift_count_7d |->
              Cardinality({k \in 1..Len(vals_7d) : vals_7d[k] > 500}),
          high_drift_count_28d |->
              Cardinality({k \in 1..Len(vals_28d) : vals_28d[k] > 500}),
          qualifying_sessions_7d |-> Len(vals_7d),
          qualifying_sessions_28d |-> Len(vals_28d),
          trend |-> durability_trend(mean_7d, mean_28d) ]

\* the session of day 25: every combination of the fields the filter reads
DurabilitySessions ==
    { DurabilitySession(25, d, f, v, m) :
        d \in {None, Some(-200), Some(0), Some(600)}, f \in {None, Some(300)},
        v \in {None, Some(0), Some(100), Some(105), Some(106)},
        m \in {None, Some(5399), Some(5400)} }

\* the session of day 27, and the sessions of the three weeks before
DurabilityCompanions ==
    { <<DurabilitySession(27, Some(600), None, Some(100), Some(7200))>>,
      <<DurabilitySession(27, Some(-200), None, Some(103), Some(5400))>>,
      <<DurabilitySession(27, Some(0), None, Some(100), Some(6000))>>,
      <<DurabilitySession(27, Some(600), None, None, Some(7200))>>,
      <<DurabilitySession(10, Some(400), None, Some(100), Some(7200)),
        DurabilitySession(27, Some(700), None, Some(105), Some(5400))>>,
      <<DurabilitySession(10, Some(400), None, Some(100), Some(7200)),
        DurabilitySession(12, Some(100), None, Some(100), Some(7200)),
        DurabilitySession(27, None, Some(300), Some(100), Some(7200))>> }

\* line 739
CalculateDurability ==
    /\ pc = "sessions"
    /\ durability_report' =
           calculate_durability(recent_activities_of(activity_log, today),
                                activity_log)
    /\ pc' = "durability_done"
    /\ UNCHANGED <<ftp_vars, run_inputs, run_outputs, phase_vars, tid_vars, race_vars>>
    /\ UNCHANGED <<activity_log, planned_events, load_report, consistency_report>>

----------------------------------------------------------------------------
(* Consistency: _calculate_consistency_index *)

\* A calendar event as the index reads it; start_date_local is None for an
\* event without a date (the code reads "").
PlannedEvent(category, date) == [category |-> category, start_date_local |-> date]

\* line 964
cycling_types == {"Ride", "VirtualRide", "MountainBikeRide", "GravelRide"}

\* A plausible slip: a completed activity of any sport counted.
calculate_consistency_index_any_sport(activities, past_events) ==
    LET planned_dates ==
            {Val(past_events[k].start_date_local) :
                k \in {j \in 1..Len(past_events) :
                          /\ past_events[j].category = "WORKOUT"
                          /\ past_events[j].start_date_local # None}}
        completed_dates ==
            {Val(activities[k].start_date_local) :
                k \in {j \in 1..Len(activities) :
                          activities[j].start_date_local # None}}
        matched_dates == planned_dates \cap completed_dates
    IN  [ consistency_index |->
              IF planned_dates = {} THEN None
              ELSE Some(RoundDiv(100 * Cardinality(matched_dates),
                                 Cardinality(planned_dates))),
          planned_days |-> Cardinality(planned_dates),
          completed_days |-> Cardinality(completed_dates),
          matched_days |->
              IF planned_dates = {} THEN 0 ELSE Cardinality(matched_dates) ]

\* lines 947-991; the index in hundredths
calculate_consistency_index(activities, past_events) ==
    LET planned_dates ==
            {Val(past_events[k].start_date_local) :
                k \in {j \in 1..Len(past_events) :
                          /\ past_events[j].category = "WORKOUT"
                          /\ past_events[j].start_date_local # None}}
        completed_dates ==
            {Val(activities[k].start_date_local) :
                k \in {j \in 1..Len(activities) :
                          /\ activities[j].type \in {Some(t) : t \in cycling_types}
                          /\ activities[j].start_date_local # None}}
        matched_dates == planned_dates \cap completed_dates
    IN  [ consistency_index |->
              IF planned_dates = {} THEN None
              ELSE Some(RoundDiv(100 * Cardinality(matched_dates),
                                 Cardinality(planned_dates))),
          planned_days |-> Cardinality(planned_dates),
          completed_days |-> Cardinality(completed_dates),
          matched_days |->
              IF planned_dates = {} THEN 0 ELSE Cardinality(matched_dates) ]

\* the days of a set from first to last, in order
RECURSIVE DaysIn(_, _, _)
DaysIn(days, first, last) ==
    IF first > last THEN <<>>
    ELSE (IF first \in days THEN <<first>> ELSE <<>>) \o DaysIn(days, first + 1, last)

\* the events up to today (day 28): a workout on any of the last 5 days,
\* after nothing, a note with a workout without a date, or a race with a
\* second workout today
PlannedLists ==
    { extra \o [k \in 1..Len(DaysIn(days, 24, 28)) |->
                   PlannedEvent("WORKOUT", Some(DaysIn(days, 24, 28)[k]))] :
        days \in SUBSET (24..28),
        extra \in { <<>>,
                    <<PlannedEvent("NOTE", Some(23)), PlannedEvent("WORKOUT", None)>>,
                    <<PlannedEvent("RACE_B", Some(22)),
                      PlannedEvent("WORKOUT", Some(28))>> } }

\* the activities: a ride on any of the last 5 days, after nothing, a run and
\* a gravel ride, or a record without a type and an older ride
CompletedLists ==
    { extra \o [k \in 1..Len(DaysIn(days, 24, 28)) |->
                   SportActivity(Some(DaysIn(days, 24, 28)[k]), Some(50), Some("Ride"))] :
        days \in SUBSET (24..28),
        extra \in { <<>>,
                    <<SportActivity(Some(28), Some(40), Some("Run")),
                      SportActivity(Some(27), None, Some("GravelRide"))>>,
                    <<SportActivity(Some(28), Some(60), None),
                      SportActivity(Some(14), Some(90), Some("Ride"))>> } }

\* lines 742-744
CalculateConsistencyIndex ==
    /\ pc = "planned"
    /\ consistency_report' =
           calculate_consistency_index(recent_activities_of(activity_log, today),
                                       planned_events)
    /\ pc' = "consistency_done"
    /\ UNCHANGED <<ftp_vars, run_inputs, run_outputs, phase_vars, tid_vars, race_vars>>
    /\ UNCHANGED <<activity_log, planned_events, load_report, durability_report>>

----------------------------------------------------------------------------
(* Inputs of a run *)

MaxWellness == 4

HrvReadings == {None, Some(9), Some(10), Some(15), Some(250), Some(251)}

\* Every HRV reading with a resting HR of 60, and a resting HR of 40 with the
\* two valid readings at the ends of the range.
WellnessRecords ==
    [hrv : HrvReadings, restingHR : {Some(60)}]
    \cup [hrv : {Some(10), Some(250)}, restingHR : {Some(40)}]

WellnessWindows == UNION {[1..n -> WellnessRecords] : n \in 0..MaxWellness}

\* Older records of the 28-day window: none, a valid or an invalid reading.
OlderWindows ==
    {<<>>} \cup {<<[hrv |-> h, restingHR |-> Some(60)]>> : h \in {Some(250), Some(251)}}

NoLoad ==
    [ tss_7d_total |-> 0, tss_28d_total |-> 0, monotony |-> None,
      primary_sport_monotony |-> None, multi_sport_detected |-> FALSE ]

NoCapability ==
    [ mean_decoupling_7d |-> None, mean_decoupling_28d |-> None,
      high_drift_count_7d |-> 0, drift |-> "none" ]

NoRaces == [ taper_alert |-> [active |-> FALSE], race_week |-> [active |-> FALSE] ]

\* <<7-day total, 28-day total>>; the 7-day window is part of the 28-day one.
LoadTotals ==
    { <<0, 0>>, <<0, 4000>>, <<900, 6000>>, <<1000, 5000>>, <<1005, 5000>>,
      <<1500, 6000>>, <<1950, 6000>>, <<2025, 6000>> }

\* monotony in hundredths
MonotonyValues == {None, Some(229), Some(230), Some(249), Some(250), Some(260)}

SportMixes ==
    { [multi |-> FALSE, primary |-> None], [multi |-> TRUE, primary |-> None],
      [multi |-> TRUE, primary |-> Some(240)] }

\* No load in the window leaves every monotony undefined (lines 583, 612).
LoadInputs ==
    { [ tss_7d_total |-> t[1], tss_28d_total |-> t[2], monotony |-> m,
        primary_sport_monotony |-> s.primary, multi_sport_detected |-> s.multi ] :
      t \in LoadTotals, m \in MonotonyValues, s \in SportMixes }
    \ { li \in [ tss_7d_total : {0}, tss_28d_total : {0, 4000},
                 monotony : MonotonyValues,
                 primary_sport_monotony : {None, Some(240)},
                 multi_sport_detected : BOOLEAN ] :
          li.monotony # None \/ li.primary_sport_monotony # None }

\* mean decoupling in hundredths of a point; three high-drift sessions in the
\* 7-day window make both means defined (the 7-day sessions are 28-day ones).
DurabilityInputs ==
    { <<None, None, 0>>, <<None, Some(400), 0>>, <<Some(450), Some(400), 0>>,
      <<Some(700), Some(400), 0>>, <<Some(700), Some(600), 0>>,
      <<Some(700), Some(400), 3>>, <<Some(700), Some(600), 3>> }

DriftValues == {"none", "consistent", "shifting", "acute_depolarization"}

CapabilityInputs ==
    { [ mean_decoupling_7d |-> d[1], mean_decoupling_28d |-> d[2],
        high_drift_count_7d |-> d[3], drift |-> x ] :
      d \in DurabilityInputs, x \in DriftValues }

\* race week with a projected race-day TSB (tenths) and its target range
RaceWeeks ==
    { [active |-> FALSE] } \cup
    { [ active |-> TRUE, projected_race_day_tsb |-> p,
        tsb_target_range |-> [min |-> 10, max |-> 25] ] :
      p \in {Some(120), Some(50)} }

RaceCalendars ==
    { [ taper_alert |-> [active |-> t], race_week |-> w ] :
      t \in BOOLEAN, w \in RaceWeeks }

WRec(h, r) == [hrv |-> Some(h), restingHR |-> Some(r)]

\* wellness windows giving no, warning and alarm readiness alerts
AlertWellness ==
    { <<>>, <<WRec(15, 40), WRec(10, 60)>>,
      <<WRec(250, 40), WRec(10, 60), WRec(10, 60), WRec(10, 60)>> }

----------------------------------------------------------------------------
(* The steps of collect_training_data *)

\* lines 417-433
CalculateDerivedMetrics ==
    /\ pc = "fetched"
    /\ derived_metrics' =
           calculate_derived_metrics(wellness_older, wellness_7d,
                                     load_inputs, capability_inputs)
    /\ pc' = "derived"
    /\ UNCHANGED <<ftp_vars, run_inputs, generated_alerts, alerts, phase_vars>>
    /\ UNCHANGED <<tid_vars, race_vars, load_vars>>

\* lines 435-442
GenerateAlerts ==
    /\ pc = "derived"
    /\ generated_alerts' =
           generate_alerts(derived_metrics, wellness_7d,
                           derived_metrics.tss_7d_total,
                           derived_metrics.tss_28d_total)
    /\ alerts' = generated_alerts'
    /\ pc' = "alerted"
    /\ UNCHANGED <<ftp_vars, run_inputs, derived_metrics, phase_vars>>
    /\ UNCHANGED <<tid_vars, race_vars, load_vars>>

\* lines 462-465 and 502: alerts.extend(race_alerts), then published
AddRaceAlerts ==
    /\ pc = "alerted"
    /\ alerts' = alerts \o generate_race_alerts(race_calendar)
    /\ pc' = "published"
    /\ UNCHANGED <<ftp_vars, run_inputs, derived_metrics, generated_alerts, phase_vars>>
    /\ UNCHANGED <<tid_vars, race_vars, load_vars>>

NextRun == CalculateDerivedMetrics \/ GenerateAlerts \/ AddRaceAlerts

FtpIdle ==
    /\ today = 1
    /\ history = [c \in Contexts |-> EmptyDict]
    /\ current_ftp_indoor = None
    /\ current_ftp_outdoor = None

RunIdle ==
    /\ wellness_older = <<>>
    /\ wellness_7d = <<>>
    /\ load_inputs = NoLoad
    /\ capability_inputs = NoCapability
    /\ race_calendar = NoRaces
    /\ derived_metrics = <<>>
    /\ generated_alerts = <<>>
    /\ alerts = <<>>

\* Runs over every wellness window, with no load and no race.
InitWellness ==
    /\ pc = "fetched"
    /\ FtpIdle
    /\ wellness_older \in OlderWindows
    /\ wellness_7d \in WellnessWindows
    /\ load_inputs = NoLoad
    /\ capability_inputs = NoCapability
    /\ race_calendar = NoRaces
    /\ derived_metrics = <<>>
    /\ generated_alerts = <<>>
    /\ alerts = <<>>
    /\ PhaseIdle
    /\ TidIdle
    /\ RaceIdle
    /\ LoadIdle

SpecWellness == InitWellness /\ [][NextRun]_vars

\* Runs over every combination of load, capability and race figures.
InitAlerts ==
    /\ pc = "fetched"
    /\ FtpIdle
    /\ wellness_older = <<>>
    /\ wellness_7d \in AlertWellness
    /\ load_inputs \in LoadInputs
    /\ capability_inputs \in CapabilityInputs
    /\ race_calendar \in RaceCalendars
    /\ derived_metrics = <<>>
    /\ generated_alerts = <<>>
    /\ alerts = <<>>
    /\ PhaseIdle
    /\ TidIdle
    /\ RaceIdle
    /\ LoadIdle

SpecAlerts == InitAlerts /\ [][NextRun]_vars

\* _detect_phase over every combination of its arguments.
InitPhase ==
    /\ pc = "phase"
    /\ FtpIdle
    /\ RunIdle
    /\ phase_inputs \in PhaseInputs
    /\ phase_detected = "none"
    /\ TidIdle
    /\ RaceIdle
    /\ LoadIdle

SpecPhase == InitPhase /\ [][DetectPhase]_vars

\* The TID of every pair of a 7-day and an older zone split.
InitTid ==
    /\ pc = "zones"
    /\ FtpIdle
    /\ RunIdle
    /\ PhaseIdle
    /\ zone_inputs \in [recent : ZoneSplits, older : ZoneSplits]
    /\ seiler_tid_7d = NoTid
    /\ seiler_tid_28d = NoTid
    /\ tid_drift_report = <<>>
    /\ RaceIdle
    /\ LoadIdle

SpecTid == InitTid /\ [][NextTid]_vars

\* Daily runs from day 1 over every calendar, fitness and activity list.
InitRace ==
    /\ pc = "race"
    /\ FtpIdle
    /\ RunIdle
    /\ PhaseIdle
    /\ TidIdle
    /\ events \in EventLists
    /\ current_ctl \in CtlValues
    /\ current_atl \in AtlValues
    /\ activities_extended \in ActivityLists
    /\ LoadIdle

SpecRace == InitRace /\ [][NextRace]_vars

\* One run on day 28 over every week of rides, cross-training and older
\* activities.
InitLoad ==
    /\ pc = "load"
    /\ today = days_for_acwr
    /\ history = [c \in Contexts |-> EmptyDict]
    /\ current_ftp_indoor = None
    /\ current_ftp_outdoor = None
    /\ RunIdle
    /\ PhaseIdle
    /\ TidIdle
    /\ RaceIdle
    /\ \E older \in OlderActivities, loads \in RideWeeks, cross \in CrossTraining :
           activity_log = older \o rides_of(loads, today) \o cross
    /\ planned_events = <<>>
    /\ load_report = <<>>
    /\ durability_report = <<>>
    /\ consistency_report = <<>>

SpecLoad == InitLoad /\ [][CalculateLoadMetrics]_vars

\* One run on day 28 over every session of day 25 and its companions.
InitDurability ==
    /\ pc = "sessions"
    /\ today = days_for_acwr
    /\ history = [c \in Contexts |-> EmptyDict]
    /\ current_ftp_indoor = None
    /\ current_ftp_outdoor = None
    /\ RunIdle
    /\ PhaseIdle
    /\ TidIdle
    /\ RaceIdle
    /\ \E s \in DurabilitySessions, others \in DurabilityCompanions :
           activity_log = others \o <<s>>
    /\ planned_events = <<>>
    /\ load_report = <<>>
    /\ durability_report = <<>>
    /\ consistency_report = <<>>

SpecDurability == InitDurability /\ [][CalculateDurability]_vars

\* One run on day 28 over every list of events and of activities.
InitConsistency ==
    /\ pc = "planned"
    /\ today = days_for_acwr
    /\ history = [c \in Contexts |-> EmptyDict]
    /\ current_ftp_indoor = None
    /\ current_ftp_outdoor = None
    /\ RunIdle
    /\ PhaseIdle
    /\ TidIdle
    /\ RaceIdle
    /\ activity_log \in CompletedLists
    /\ planned_events \in PlannedLists
    /\ load_report = <<>>
    /\ durability_report = <<>>
    /\ consistency_report = <<>>

SpecConsistency == InitConsistency /\ [][CalculateConsistencyIndex]_vars

\* A run of collect_training_data as far as the history is concerned
\* (lines 400-407): load the history, save the current thresholds.
SaveFtpHistory ==
    /\ pc = "ftp"
    /\ \E i \in FtpInputs, o \in FtpInputs :
        /\ current_ftp_indoor' = i
        /\ current_ftp_outdoor' = o
        /\ history' = save_ftp_history(history, i, o, today)
    /\ UNCHANGED <<pc, today, run_inputs, run_outputs, phase_vars, tid_vars, race_vars, load_vars>>

\* The calendar date moves on between runs.
NextDay ==
    /\ pc = "ftp"
    /\ today < MaxDay
    /\ today' = today + 1
    /\ UNCHANGED <<pc, history, current_ftp_indoor, current_ftp_outdoor>>
    /\ UNCHANGED <<run_inputs, run_outputs, phase_vars, tid_vars, race_vars, load_vars>>

InitFtp ==
    /\ pc = "ftp"
    /\ FtpIdle
    /\ RunIdle
    /\ PhaseIdle
    /\ TidIdle
    /\ RaceIdle
    /\ LoadIdle

NextFtp == SaveFtpHistory \/ NextDay

SpecFtp == InitFtp /\ [][NextFtp]_vars

----------------------------------------------------------------------------
(* Claims on the threshold history *)

CurrentOf(c) == IF c = "indoor" THEN current_ftp_indoor ELSE current_ftp_outdoor

\* C1 (as stated): every save is append-only - each date->value entry stored
\* for a context before a step is still there with the same value after it.
C1_AppendOnly ==
    [][\A c \in Contexts : \A d \in DOMAIN history[c] :
          d \in DOMAIN history'[c] /\ history'[c][d] = history[c][d]]_vars

\* C2: a run changes a context's history only when the current value is
\* present and differs from the latest-dated stored value (or the history is
\* empty), and then only by writing today's entry; an equal or absent value
\* leaves it unchanged; saving the same values twice equals saving them once.
C2_ChangeOnly(c) ==
    /\ history'[c] # history[c] =>
          /\ Truthy(CurrentOf(c)')
          /\ DOMAIN history[c] = {} \/ Val(CurrentOf(c)') # MostRecent(history[c])
          /\ history'[c] = DictPut(history[c], today, Val(CurrentOf(c)'))
    /\ ( /\ today' = today
         /\ \/ ~Truthy(CurrentOf(c)')
            \/ DOMAIN history[c] # {} /\ Val(CurrentOf(c)') = MostRecent(history[c]) )
       => history'[c] = history[c]

C2_Idempotent ==
    \A i \in FtpInputs, o \in FtpInputs :
        LET once == save_ftp_history(history, i, o, today)
        IN  save_ftp_history(once, i, o, today) = once

C2_AddsOnlyOnChange ==
    [][\A c \in Contexts : C2_ChangeOnly(c)]_vars /\ []C2_Idempotent

\* C2 witness: a run was given the value of the latest entry, stored on an
\* earlier date, and no entry was written for today.
C2_Witness ==
    /\ Truthy(current_ftp_indoor)
    /\ DOMAIN history["indoor"] # {}
    /\ today \notin DOMAIN history["indoor"]
    /\ MostRecent(history["indoor"]) = Val(current_ftp_indoor)

----------------------------------------------------------------------------
(* Claims on the alert lists *)

ClaimRank(severity) ==
    CASE severity = "alarm" -> 0 [] severity = "warning" -> 1 [] severity = "info" -> 2

\* ascending by tier and, within a tier, by severity rank
SortedByTierThenSeverity(list) ==
    \A i, j \in 1..Len(list) :
        i < j => \/ list[i].tier < list[j].tier
                 \/ /\ list[i].tier = list[j].tier
                    /\ ClaimRank(list[i].severity) <= ClaimRank(list[j].severity)

CountOf(list, metric) == Cardinality({i \in 1..Len(list) : list[i].metric = metric})

Generated == pc \in {"alerted", "published"}

\* C3 (as stated): the published alert list, race alerts merged in, is sorted
\* ascending by tier and, within a tier, by severity alarm < warning < info.
C3_PublishedSorted ==
    pc = "published" => SortedByTierThenSeverity(alerts)

\* C4: in the list _generate_alerts returns every alert of a lower tier comes
\* before every alert of a higher tier whatever their severities, and within
\* a tier alarms come before warnings, warnings before infos.
C4_TierDominatesSeverity ==
    Generated =>
        \A i, j \in 1..Len(generated_alerts) :
            LET a == generated_alerts[i]
                b == generated_alerts[j]
            IN  /\ a.tier < b.tier => i < j
                /\ a.tier = b.tier /\ ClaimRank(a.severity) < ClaimRank(b.severity)
                       => i < j

\* C4 witness: a tier-1 warning stands before a tier-2 alarm, and in tier 2 an
\* alarm (monotony) stands before a warning emitted earlier (acwr).
C4_Witness ==
    /\ pc = "alerted"
    /\ \E i, j \in 1..Len(generated_alerts) :
          /\ i < j
          /\ generated_alerts[i].tier = 1
          /\ generated_alerts[i].severity = "warning"
          /\ generated_alerts[j].tier = 2
          /\ generated_alerts[j].severity = "alarm"
    /\ \E i, j \in 1..Len(generated_alerts) :
          /\ i < j
          /\ generated_alerts[i] = Alert("monotony", "alarm", 2, None)
          /\ generated_alerts[j] = Alert("acwr", "warning", 2, None)

AlertMetrics ==
    {"acwr", "monotony", "strain", "recovery_index", "hrv", "rhr", "durability",
     "tid_distribution"}

\* C5 (as stated): the list _generate_alerts returns holds at most one alert
\* for any metric name.
C5_AtMostOnePerMetric ==
    Generated => \A m \in AlertMetrics : CountOf(generated_alerts, m) <= 1

\* C5 (amended): at most one alert for every metric other than durability, and
\* at most two durability alerts, of which at most one is an alarm.
C5_AtMostOneExceptDurability ==
    Generated =>
        /\ \A m \in AlertMetrics \ {"durability"} : CountOf(generated_alerts, m) <= 1
        /\ CountOf(generated_alerts, "durability") <= 2
        /\ Cardinality({i \in 1..Len(generated_alerts) :
               /\ generated_alerts[i].metric = "durability"
               /\ generated_alerts[i].severity = "alarm"}) <= 1
        /\ \A i \in 1..Len(generated_alerts) : generated_alerts[i].metric \in AlertMetrics

\* C5 witness: a run with two durability alerts and one alert each for acwr,
\* monotony and tid_distribution.
C5_Witness ==
    /\ pc = "alerted"
    /\ CountOf(generated_alerts, "durability") = 2
    /\ CountOf(generated_alerts, "acwr") = 1
    /\ CountOf(generated_alerts, "monotony") = 1
    /\ CountOf(generated_alerts, "tid_distribution") = 1

\* the number of consecutive records, from the most recent backward, that
\* satisfy P
ConsecutiveFromLatest(wellness, P(_)) ==
    SetMax({k \in 0..Len(wellness) :
        \A i \in (Len(wellness) - k + 1)..Len(wellness) : P(wellness[i])})

ClaimValidHrv(hrv) == hrv # None /\ Val(hrv) \in 10..250

AlertsOf(list, metric) == {list[i] : i \in {k \in 1..Len(list) : list[k].metric = metric}}

\* C6 (as stated): the HRV persistence count is the number of consecutive
\* most-recent records whose HRV is at least 20% below the 7-day baseline
\* (HRV <= 0.8 x baseline, the condition that triggers the alert).
C6_HrvCountUsesAlertCondition ==
    Generated =>
        \A a \in AlertsOf(generated_alerts, "hrv") :
            a.persistence_days =
                Some(ConsecutiveFromLatest(wellness_7d,
                        LAMBDA w : /\ ClaimValidHrv(w.hrv)
                                   /\ 100 * Val(w.hrv)
                                        <= 8 * Val(derived_metrics.hrv_baseline_7d)))

\* C7: an HRV or RHR alert is an alarm exactly when its persistence count is
\* more than 2 and a warning when it is 2 or fewer; the RHR count is the
\* number of consecutive most-recent records with RHR >= baseline + 5 bpm.
C7_PersistenceEscalation ==
    Generated =>
        /\ \A a \in AlertsOf(generated_alerts, "hrv") \cup AlertsOf(generated_alerts, "rhr") :
              /\ a.persistence_days # None
              /\ a.severity = "alarm" <=> Val(a.persistence_days) > 2
              /\ a.severity = "warning" <=> Val(a.persistence_days) <= 2
        /\ \A a \in AlertsOf(generated_alerts, "rhr") :
              a.persistence_days =
                  Some(ConsecutiveFromLatest(wellness_7d,
                          LAMBDA w : /\ w.restingHR # None
                                     /\ 10 * Val(w.restingHR)
                                          >= Val(derived_metrics.rhr_baseline_7d) + 50))

\* C7 witness: an RHR alarm and an HRV alarm that persisted 3 days, reached
\* from a window whose three most recent records all violate.
C7_Witness ==
    /\ pc = "alerted"
    /\ Alert("rhr", "alarm", 1, Some(3)) \in AlertsOf(generated_alerts, "rhr")
    /\ Alert("hrv", "alarm", 1, Some(3)) \in AlertsOf(generated_alerts, "hrv")

\* 7-day total at least 20% below the 28-day weekly average (28-day total / 4)
ClaimDeload(tss_7d_total, tss_28d_total) ==
    100 * (4 * tss_7d_total) <= 80 * tss_28d_total

\* C8: with effective monotony >= 2.3, a detected deload makes the monotony
\* alert info; without a deload it is warning in [2.3, 2.5) and alarm from 2.5.
C8_DeloadSuppression ==
    Generated =>
        LET eff == derived_metrics.effective_monotony
            deload == ClaimDeload(derived_metrics.tss_7d_total,
                                  derived_metrics.tss_28d_total)
        IN  (eff # None /\ Val(eff) >= 230) =>
                AlertsOf(generated_alerts, "monotony") =
                    { Alert("monotony",
                            IF deload THEN "info"
                            ELSE IF Val(eff) < 250 THEN "warning" ELSE "alarm",
                            2, None) }

\* C8 witness: the 7-day load is 40% below the 28-day weekly average, the
\* effective monotony is 2.6 and the monotony alert is info.
C8_Witness ==
    /\ pc = "alerted"
    /\ derived_metrics.tss_7d_total = 900
    /\ derived_metrics.tss_28d_total = 6000
    /\ derived_metrics.effective_monotony = Some(260)
    /\ Alert("monotony", "info", 2, None) \in AlertsOf(generated_alerts, "monotony")

----------------------------------------------------------------------------
(* Claims on the HRV validity filter *)

\* the window with every out-of-range reading taken out of its record
WithoutInvalidHrv(wellness) ==
    [i \in 1..Len(wellness) |->
        IF ClaimValidHrv(wellness[i].hrv) THEN wellness[i]
        ELSE [wellness[i] EXCEPT !.hrv = None]]

InRangeHrv(wellness) == {i \in 1..Len(wellness) : ClaimValidHrv(wellness[i].hrv)}

RECURSIVE SumOver(_, _)
SumOver(wellness, idx) ==
    IF idx = {} THEN 0
    ELSE LET i == CHOOSE x \in idx : TRUE
         IN  Val(wellness[i].hrv) + SumOver(wellness, idx \ {i})

\* the mean in tenths of the readings within [10, 250], None if there is none
InRangeMean(wellness) ==
    IF InRangeHrv(wellness) = {} THEN None
    ELSE Some(RoundDiv(10 * SumOver(wellness, InRangeHrv(wellness)),
                       Cardinality(InRangeHrv(wellness))))

C9_Derived ==
    pc # "fetched" =>
        LET all == wellness_older \o wellness_7d
            clean == calculate_derived_metrics(WithoutInvalidHrv(wellness_older),
                                               WithoutInvalidHrv(wellness_7d),
                                               load_inputs, capability_inputs)
        IN  /\ derived_metrics.hrv_baseline_7d = InRangeMean(wellness_7d)
            /\ derived_metrics.hrv_baseline_28d = InRangeMean(all)
            /\ derived_metrics.recovery_index = clean.recovery_index
            /\ derived_metrics.latest_hrv = clean.latest_hrv
            /\ derived_metrics.hrv_baseline_7d # None =>
                  count_hrv_low_days(wellness_7d,
                                     Val(derived_metrics.hrv_baseline_7d))
                  = count_hrv_low_days(WithoutInvalidHrv(wellness_7d),
                                       Val(derived_metrics.hrv_baseline_7d))
            /\ Generated =>
                  generated_alerts =
                      generate_alerts(clean, WithoutInvalidHrv(wellness_7d),
                                      clean.tss_7d_total, clean.tss_28d_total)

\* C9: an HRV reading outside [10, 250] contributes to no baseline (7-day or
\* 28-day), not to the Recovery Index nor to the persistence count, a reading
\* within the range (10 and 250 included) does, and no step changes a record.
C9_InvalidHrvExcluded ==
    /\ []C9_Derived
    /\ [][wellness_7d' = wellness_7d /\ wellness_older' = wellness_older]_vars

\* C9 witness: a window holding 251 and 9 beside 10 and 250; the 7-day
\* baseline is the mean of 10 and 250 alone and the invalid 251 is still in
\* the record.
C9_Witness ==
    /\ pc = "derived"
    /\ {wellness_7d[i].hrv : i \in 1..Len(wellness_7d)}
           = {Some(9), Some(10), Some(250), Some(251)}
    /\ wellness_older = <<[hrv |-> Some(251), restingHR |-> Some(60)]>>
    /\ derived_metrics.hrv_baseline_7d = Some(1300)
    /\ derived_metrics.hrv_baseline_28d = Some(1300)

----------------------------------------------------------------------------
(* Claims on phase detection *)

\* the first satisfied rule of the cascade; a rule over an absent metric is
\* not satisfied, and 0 is a value like any other
ClaimPhase(in) ==
    LET gt(o, k) == o # None /\ Val(o) > k
        ge(o, k) == o # None /\ Val(o) >= k
        lt(o, k) == o # None /\ Val(o) < k
        le(o, k) == o # None /\ Val(o) <= k
        load_triggers == Cardinality({x \in {"acwr", "strain", "monotony"} :
                            \/ x = "acwr" /\ gt(in.acwr, 130)
                            \/ x = "strain" /\ gt(in.strain, 3500)
                            \/ x = "monotony" /\ gt(in.monotony, 250)})
        build == \/ ge(in.quality_intensity_pct, 150) /\ le(in.quality_intensity_pct, 250)
                 \/ in.hard_days_per_week >= 2
        peak == gt(in.quality_intensity_pct, 200) \/ in.hard_days_per_week >= 3
    IN  CASE load_triggers >= 2 \/ lt(in.ri, 60) -> "Overreached"
          [] OTHER ->
        CASE gt(in.tsb, 1000) -> "Recovery"
          [] OTHER ->
        CASE gt(in.tsb, 0) /\ le(in.tsb, 1000) /\ in.ctl # None -> "Taper"
          [] OTHER ->
        CASE ge(in.acwr, 80) /\ le(in.acwr, 130) /\ build -> "Build"
          [] OTHER ->
        CASE ge(in.acwr, 80) /\ lt(in.acwr, 100) -> "Base"
          [] OTHER ->
        CASE ge(in.acwr, 100) /\ peak -> "Peak"
          [] OTHER -> "Indeterminate"

\* C10 (as stated): for every combination of arguments, each possibly absent
\* or zero, _detect_phase returns the phase of the first satisfied rule.
C10_FirstSatisfiedRule ==
    pc = "phase_done" => phase_detected = ClaimPhase(phase_inputs)

----------------------------------------------------------------------------
(* Claims on the TID classifier *)

BuiltTids == IF pc \in {"tid_built", "tid_compared"} THEN {seiler_tid_7d, seiler_tid_28d} ELSE {}

TidTotal(t) == t.z1_seconds + t.z2_seconds + t.z3_seconds

\* the share of z3 is below 0.01 and z1 is the largest share
ClaimBaseShape(t) ==
    /\ 100 * t.z3_seconds < TidTotal(t)
    /\ t.z1_seconds >= t.z2_seconds
    /\ t.z1_seconds >= t.z3_seconds

ClaimPolarizedShape(t) == t.z1_seconds > t.z3_seconds /\ t.z3_seconds > t.z2_seconds

ClaimHighPi(t) == t.polarization_index # None /\ Val(t.polarization_index) > 200

\* the label of the first matching rule, in the order the claim gives
ClaimTidLabel(t) ==
    CASE ClaimBaseShape(t) -> "Base"
      [] ~ClaimBaseShape(t) /\ ClaimPolarizedShape(t) /\ ClaimHighPi(t) -> "Polarized"
      [] ~ClaimBaseShape(t) /\ ~(ClaimPolarizedShape(t) /\ ClaimHighPi(t))
         /\ t.z1_seconds > t.z2_seconds /\ t.z2_seconds > t.z3_seconds -> "Pyramidal"
      [] OTHER ->
           IF t.z2_seconds >= t.z1_seconds /\ t.z2_seconds >= t.z3_seconds
           THEN "Threshold"
           ELSE IF t.z3_seconds >= t.z1_seconds /\ t.z3_seconds >= t.z2_seconds
                THEN "High Intensity"
                ELSE "Pyramidal"

\* C11: every classified window carries the label of the first matching rule
\* in the order Base, Polarized, Pyramidal, Threshold, High Intensity, else
\* Pyramidal; a z3 share below 0.01 with z1 largest is Base, and Polarized
\* comes only with a non-null Polarization Index above 2.0.
C11_FirstMatchingTidRule ==
    \A t \in BuiltTids :
        t.classification # None =>
            /\ Val(t.classification) = ClaimTidLabel(t)
            /\ ClaimBaseShape(t) => Val(t.classification) = "Base"
            /\ Val(t.classification) = "Polarized" => ClaimHighPi(t)

C11_Witness ==
    /\ pc = "tid_built"
    /\ seiler_tid_7d.classification = Some("Base")
    /\ seiler_tid_28d.classification = Some("Polarized")

\* the return statement _classify_tid reached for a classified window
RuleReached(t) ==
    classify_tid_rule(Frac(t.z1_seconds, TidTotal(t)), Frac(t.z2_seconds, TidTotal(t)),
                      Frac(t.z3_seconds, TidTotal(t)), t.polarization_index)

\* C12: the fallback of _classify_tid is reached only for a polarized-shaped
\* distribution (z1 > z3 > z2) whose Polarization Index is at most 2.0.
C12_FallbackOnlyPolarizedShape ==
    \A t \in BuiltTids :
        (t.classification # None /\ RuleReached(t) = 6) =>
            /\ ClaimPolarizedShape(t)
            /\ t.polarization_index # None
            /\ Val(t.polarization_index) <= 200

ClaimAcute ==
    /\ seiler_tid_7d.polarization_index # None
    /\ seiler_tid_28d.polarization_index # None
    /\ Val(seiler_tid_7d.polarization_index) < 200
    /\ Val(seiler_tid_28d.polarization_index) >= 200

ClaimNoComparison ==
    seiler_tid_7d.classification = None \/ seiler_tid_28d.classification = None

\* C13: the drift is null when either window has no classification; otherwise
\* acute_depolarization when the 7d PI is below 2.0 and the 28d PI at least 2.0,
\* else shifting when the two classifications differ, else consistent.
C13_DriftOrder ==
    pc = "tid_compared" =>
        /\ ClaimNoComparison => tid_drift_report.drift = "none"
        /\ (~ClaimNoComparison /\ ClaimAcute) =>
               tid_drift_report.drift = "acute_depolarization"
        /\ (~ClaimNoComparison /\ ~ClaimAcute
               /\ seiler_tid_7d.classification # seiler_tid_28d.classification) =>
               tid_drift_report.drift = "shifting"
        /\ (~ClaimNoComparison /\ ~ClaimAcute
               /\ seiler_tid_7d.classification = seiler_tid_28d.classification) =>
               tid_drift_report.drift = "consistent"

C13_Witness ==
    /\ pc = "tid_compared"
    /\ ClaimAcute
    /\ seiler_tid_7d.classification # seiler_tid_28d.classification
    /\ tid_drift_report.drift = "acute_depolarization"

----------------------------------------------------------------------------
(* Claims on the race calendar *)

RaceBuilt == pc = "race_built"

RaceWeek == race_calendar.race_week

\* the calendar's races of tier c that are 0 to 7 days out
RacesWithinWeek(c) ==
    { i \in 1..Len(events) :
        events[i].category = c /\ events[i].date - today \in 0..7 }

NearestDate(I) == CHOOSE d \in {events[i].date : i \in I} : \A i \in I : d <= events[i].date

\* C14: race week is active exactly when a tier-A or tier-B race is 0 to 7 days
\* out; its target is the nearest tier-A race within 7 days if there is one,
\* otherwise the nearest tier-B race; an active protocol has days_until_event
\* in 0..7 and category RACE_A or RACE_B.
C14_RaceWeekTarget ==
    RaceBuilt =>
        LET A == RacesWithinWeek("RACE_A")
            B == RacesWithinWeek("RACE_B")
        IN  /\ RaceWeek.active <=> (A \cup B # {})
            /\ RaceWeek.active =>
                 /\ RaceWeek.days_until_event \in 0..7
                 /\ RaceWeek.days_until_event = RaceWeek.event_date - today
                 /\ RaceWeek.event_category \in {"RACE_A", "RACE_B"}
                 /\ A # {} => /\ RaceWeek.event_category = "RACE_A"
                              /\ RaceWeek.event_date = NearestDate(A)
                 /\ A = {} => /\ RaceWeek.event_category = "RACE_B"
                              /\ RaceWeek.event_date = NearestDate(B)

C14_Witness ==
    /\ RaceBuilt
    /\ RaceWeek.active
    /\ RaceWeek.event_category = "RACE_A"
    /\ \E i \in RacesWithinWeek("RACE_B") : events[i].date < RaceWeek.event_date

SingleRaceA == Len(events) = 1 /\ events[1].category = "RACE_A"

ClaimDayLabels == <<"D-0", "D-1", "D-2", "D-3", "D-4", "D-5", "D-6", "D-7">>

C15_Days ==
    (RaceBuilt /\ SingleRaceA) =>
        LET out == events[1].date - today
        IN  /\ race_calendar.taper_alert.active <=> out \in 8..14
            /\ RaceWeek.active <=> out \in 0..7
            /\ ~(race_calendar.taper_alert.active /\ RaceWeek.active)
            /\ RaceWeek.active => RaceWeek.current_day = ClaimDayLabels[out + 1]
            /\ out < 0 => ~race_calendar.taper_alert.active /\ ~RaceWeek.active

C15_Step ==
    (SingleRaceA /\ pc = "race" /\ pc' = "race_built"
       /\ RaceWeek.active /\ race_calendar'.race_week.active) =>
        race_calendar'.race_week.days_until_event = RaceWeek.days_until_event - 1

\* C15: with a single tier-A race and the date advancing a day at a time, the
\* taper alert is active exactly on D-14..D-8 and race week exactly on
\* D-7..D-0, never both; the current_day label runs D-7, D-6, ..., D-0 in that
\* order, and neither is active after the race date.
C15_TaperThenRaceWeek == []C15_Days /\ [][C15_Step]_vars

C15_Witness ==
    /\ RaceBuilt
    /\ SingleRaceA
    /\ today = events[1].date
    /\ RaceWeek.active
    /\ RaceWeek.current_day = "D-0"

\* C16: tsb_status is green exactly when the projected race-day TSB is at least
\* the target minimum and flag otherwise; a flag's note has the escalated
\* wording exactly when the shortfall exceeds 10 points.
C16_GoNoGo ==
    (RaceBuilt /\ RaceWeek.active) =>
        LET shortfall == 10 * RaceWeek.tsb_target_range.min
                           - Val(RaceWeek.projected_race_day_tsb)
            verdict == RaceWeek.go_no_go
        IN  /\ verdict.tsb_status = "green" <=> shortfall <= 0
            /\ verdict.tsb_status = "flag" <=> shortfall > 0
            /\ verdict.tsb_status = "flag" =>
                 (verdict.notes = <<"significantly below target range">>
                    <=> shortfall > 100)

C16_Witness ==
    /\ RaceBuilt
    /\ RaceWeek.active
    /\ 10 * RaceWeek.tsb_target_range.min - Val(RaceWeek.projected_race_day_tsb) = 100
    /\ RaceWeek.go_no_go = [tsb_status |-> "flag", notes |-> <<"below target range">>]

\* the day table of the claim: label and load fractions of CTL in hundredths
ClaimDayTable ==
    [ d \in 0..7 |->
        CASE d = 7 -> [label |-> "Last key session", lo |-> 75, hi |-> 100]
          [] d = 6 -> [label |-> "Recovery", lo |-> 0, hi |-> 30]
          [] d = 5 -> [label |-> "Moderate endurance", lo |-> 40, hi |-> 60]
          [] d \in {3, 4} -> [label |-> "Easy / rest", lo |-> 0, hi |-> 40]
          [] d = 2 -> [label |-> "Opener", lo |-> 30, hi |-> 50]
          [] d = 1 -> [label |-> "Rest / minimal", lo |-> 0, hi |-> 20]
          [] d = 0 -> [label |-> "Race day", lo |-> 0, hi |-> 0] ]

\* C17: for every day offset D-7..D-0 and every CTL the day protocol carries
\* the table's label and the load band [CTL x min fraction, CTL x max fraction]
\* with min <= max; D-5 gives CTL x 0.40 to CTL x 0.60 (20-30 for CTL 50), and
\* for a long-endurance event the D-3 and D-4 lower bound is CTL x 0.20.
C17_DayProtocol ==
    (RaceBuilt /\ RaceWeek.active) =>
        LET d == RaceWeek.days_until_event
            ctl == RaceWeek.ctl_baseline
            band == Val(RaceWeek.today.load_target_tss)
            long == RaceWeek.event_duration_class = "long_endurance"
            lo == IF d \in {3, 4} /\ long THEN 20 ELSE ClaimDayTable[d].lo
        IN  /\ RaceWeek.today.label = ClaimDayTable[d].label
            /\ band.min <= band.max
            /\ band.min = RoundDiv(ctl * lo, 1000)
            /\ band.max = RoundDiv(ctl * ClaimDayTable[d].hi, 1000)
            /\ (d = 5 /\ ctl = 500) => band = [min |-> 20, max |-> 30]

C17_Witness ==
    /\ RaceBuilt
    /\ RaceWeek.active
    /\ RaceWeek.days_until_event = 4
    /\ RaceWeek.event_duration_class = "long_endurance"
    /\ RaceWeek.ctl_baseline = 500
    /\ RaceWeek.today.load_target_tss = Some([min |-> 10, max |-> 20])

ClaimClassRange(class) ==
    CASE class = "short_intense" -> [min |-> 5, max |-> 15]
      [] class = "medium" -> [min |-> 10, max |-> 20]
      [] class = "long_endurance" -> [min |-> 10, max |-> 25]

\* the class of a set duration, and the target range of a class and tier
ClaimSetDurationAndRange ==
    LET m == RaceWeek.event_moving_time_seconds
        class == RaceWeek.event_duration_class
        range == ClaimClassRange(class)
    IN  /\ m # None =>
              /\ class = "short_intense" <=> Val(m) < 5400
              /\ class = "medium" <=> (5400 <= Val(m) /\ Val(m) <= 10800)
              /\ class = "long_endurance" <=> Val(m) > 10800
        /\ RaceWeek.event_category = "RACE_A" => RaceWeek.tsb_target_range = range
        /\ RaceWeek.event_category = "RACE_B" =>
              RaceWeek.tsb_target_range = [min |-> range.min - 5, max |-> range.max - 5]

\* C18 as stated: a duration under 90 min is short_intense, 90 to 180 min
\* medium, over 180 min long_endurance, an unset duration long_endurance; a
\* tier-B race has its class's range shifted 5 points lower.
C18_UnsetIsLongEndurance ==
    (RaceBuilt /\ RaceWeek.active) =>
        /\ ClaimSetDurationAndRange
        /\ RaceWeek.event_moving_time_seconds = None =>
              RaceWeek.event_duration_class = "long_endurance"

\* C18 amended: as C18, but an unset duration is classed by the race tier,
\* long_endurance for a tier-A race and medium for a tier-B race.
C18_UnsetDefaultsByTier ==
    (RaceBuilt /\ RaceWeek.active) =>
        /\ ClaimSetDurationAndRange
        /\ RaceWeek.event_moving_time_seconds = None =>
              RaceWeek.event_duration_class =
                  IF RaceWeek.event_category = "RACE_A" THEN "long_endurance" ELSE "medium"

C18_Witness ==
    /\ RaceBuilt
    /\ RaceWeek.active
    /\ RaceWeek.event_category = "RACE_B"
    /\ RaceWeek.event_moving_time_seconds = None
    /\ RaceWeek.event_duration_class = "medium"
    /\ RaceWeek.tsb_target_range = [min |-> 5, max |-> 15]

\* the load of the athlete's activities dated from 7 days before the race
\* date up to today
RECURSIVE ClaimSpent(_)
ClaimSpent(acts) ==
    IF acts = <<>> THEN 0
    ELSE (IF RaceWeek.event_date - 7 <= Head(acts).date /\ Head(acts).date <= today
             /\ Head(acts).icu_training_load # None
          THEN Val(Head(acts).icu_training_load) ELSE 0)
         + ClaimSpent(Tail(acts))

\* b is pct hundredths of the normal weekly load n (tenths), to the nearest whole
IsShareOf(b, pct, n) == 1000 * b - n * pct \in -500..500

C19_Carb ==
    (RaceBuilt /\ RaceWeek.active) =>
        LET m == RaceWeek.event_moving_time_seconds
            applicable == \/ m # None /\ Val(m) >= 5400
                          \/ m = None /\ RaceWeek.event_category = "RACE_A"
        IN  /\ RaceWeek.carb_loading.applicable <=> applicable
            /\ RaceWeek.carb_loading.active <=>
                   (applicable /\ RaceWeek.days_until_event <= 4)

\* a run whose previous run had carbohydrate loading active
CarbWasActive ==
    /\ pc = "race" /\ pc' = "race_built"
    /\ RaceWeek.active
    /\ RaceWeek.carb_loading.active

C19_Step ==
    /\ (CarbWasActive /\ race_calendar'.race_week.active
          /\ race_calendar'.race_week.event_date = RaceWeek.event_date
          /\ race_calendar'.race_week.event_category = RaceWeek.event_category) =>
           race_calendar'.race_week.carb_loading.active
    /\ (CarbWasActive /\ Len(events) = 1 /\ today <= RaceWeek.event_date) =>
           /\ race_calendar'.race_week.active
           /\ race_calendar'.race_week.carb_loading.active

C20_RemainingBudget ==
    (RaceBuilt /\ RaceWeek.active) =>
        LET n == RaceWeek.normal_weekly_tss
            budget == RaceWeek.race_week_tss_budget
            left == RaceWeek.race_week_tss_remaining
            spent == ClaimSpent(activities_extended)
            tier_a == RaceWeek.event_category = "RACE_A"
        IN  /\ n = 7 * (IF current_ctl = None THEN 0 ELSE Val(current_ctl))
            /\ IsShareOf(budget.min, IF tier_a THEN 40 ELSE 50, n)
            /\ IsShareOf(budget.max, IF tier_a THEN 55 ELSE 65, n)
            /\ left.min = IntMax(0, budget.min - spent)
            /\ left.max = IntMax(0, budget.max - spent)
            /\ left.min <= left.max
            /\ left.min >= 0

----------------------------------------------------------------------------
(* Claims on the daily loads and the load metrics *)

LoadDone == pc = "load_done"

\* the load of the activities of a list dated a given day, an absent load
\* counted as 0
RECURSIVE ClaimLoadOver(_, _)
ClaimLoadOver(acts, idx) ==
    IF idx = {} THEN 0
    ELSE LET k == CHOOSE x \in idx : TRUE
         IN  (IF acts[k].icu_training_load = None THEN 0
              ELSE Val(acts[k].icu_training_load))
             + ClaimLoadOver(acts, idx \ {k})

ClaimDayLoad(acts, day) ==
    ClaimLoadOver(acts, {k \in 1..Len(acts) : acts[k].start_date_local = Some(day)})

\* the load of the last n days up to today
ClaimWindowLoad(n) ==
    ClaimLoadOver(activity_log,
                  {k \in 1..Len(activity_log) :
                      \E day \in (today - n + 1)..today :
                          activity_log[k].start_date_local = Some(day)})

\* the sport families with a load in the 7-day window
ClaimActiveFamilies ==
    {sport_family_of(activity_log[k]) :
        k \in {j \in 1..Len(activity_log) :
                  /\ \E day \in (today - 6)..today :
                         activity_log[j].start_date_local = Some(day)
                  /\ activity_log[j].icu_training_load # None
                  /\ Val(activity_log[j].icu_training_load) > 0}}

\* C21 (as stated): effective monotony is the primary-sport monotony exactly
\* when more than one sport family is active in the 7-day window, the
\* primary-sport monotony is defined and it is lower than the total monotony;
\* otherwise it is the total monotony, so it never exceeds a defined total
\* monotony.
C21_EffectiveMonotony ==
    LoadDone =>
        LET total == load_report.monotony
            primary == load_report.primary_sport_monotony
            effective == load_report.effective_monotony
        IN  /\ IF /\ Cardinality(ClaimActiveFamilies) > 1
                  /\ primary # None
                  /\ total # None
                  /\ Val(primary) < Val(total)
               THEN effective = primary
               ELSE effective = total
            /\ total # None => (effective # None /\ Val(effective) <= Val(total))

\* C21 (amended): effective monotony is the primary-sport monotony exactly
\* when more than one sport family is active in the 7-day window and the
\* primary-sport monotony is defined, whether lower or higher than the total
\* monotony; otherwise it is the total monotony.
C21_PrimaryWheneverMultiSport ==
    LoadDone =>
        IF Cardinality(ClaimActiveFamilies) > 1
           /\ load_report.primary_sport_monotony # None
        THEN load_report.effective_monotony = load_report.primary_sport_monotony
        ELSE load_report.effective_monotony = load_report.monotony

C21_Witness ==
    /\ LoadDone
    /\ Cardinality(ClaimActiveFamilies) > 1
    /\ load_report.primary_sport_monotony # None
    /\ load_report.monotony # None
    /\ Val(load_report.primary_sport_monotony) > Val(load_report.monotony)
    /\ load_report.effective_monotony = load_report.primary_sport_monotony

\* C22: monotony is null for every 7-day series whose entries are all equal,
\* the all-zero series included, and defined for every series with two
\* different entries.
C22_MonotonyNullIffFlat ==
    LoadDone =>
        LET daily == load_report.daily_tss_7d
        IN  /\ Len(daily) = 7
            /\ (\A i, j \in 1..7 : daily[i] = daily[j]) => load_report.monotony = None
            /\ (\E i, j \in 1..7 : daily[i] # daily[j]) => load_report.monotony # None

C22_Witness ==
    /\ LoadDone
    /\ \A i \in 1..7 : load_report.daily_tss_7d[i] = 100
    /\ load_report.monotony = None

\* C23: ACWR is null exactly when the 28-day load total is zero, and is 1.0
\* whenever the 7-day mean load equals a non-zero 28-day mean load.
C23_AcwrNullAndUnit ==
    LoadDone =>
        /\ (load_report.acwr = None) <=> (ClaimWindowLoad(28) = 0)
        /\ (28 * ClaimWindowLoad(7) = 7 * ClaimWindowLoad(28) /\ ClaimWindowLoad(28) # 0)
               => load_report.acwr = Some(100)

C23_Witness ==
    /\ LoadDone
    /\ ClaimWindowLoad(28) = 600
    /\ ClaimWindowLoad(7) = 150
    /\ load_report.acwr = Some(100)

\* C26: the daily series of a window of N days has N entries, one per day up
\* to today, each the sum of the loads of the activities dated that day (an
\* absent load is 0, a record without a date is in no day); the series of the
\* sport families, unmapped types in "other", add up day by day to it.
C26_DailySeries ==
    LoadDone =>
        LET by_sport == load_report.daily_tss_by_sport
        IN  /\ Len(load_report.daily_tss_7d) = 7
            /\ Len(load_report.daily_tss_28d) = 28
            /\ \A i \in 1..7 :
                   load_report.daily_tss_7d[i] = ClaimDayLoad(activity_log, today - 7 + i)
            /\ \A i \in 1..28 :
                   load_report.daily_tss_28d[i] = ClaimDayLoad(activity_log, today - 28 + i)
            /\ \A k \in 1..Len(by_sport) : Len(by_sport[k].daily) = 7
            /\ \A i \in 1..7 :
                   SeqSum([k \in 1..Len(by_sport) |-> by_sport[k].daily[i]])
                       = load_report.daily_tss_7d[i]
            /\ \A j \in 1..Len(activity_log) :
                   LET act == activity_log[j]
                   IN  (/\ act.type \notin {Some(t) : t \in DOMAIN SPORT_FAMILIES}
                        /\ act.start_date_local = Some(today)
                        /\ Truthy(act.icu_training_load)) =>
                           \E k \in 1..Len(by_sport) :
                               /\ by_sport[k].sport_family = "other"
                               /\ by_sport[k].daily[7] >= Val(act.icu_training_load)

C26_Witness ==
    /\ LoadDone
    /\ \E j \in 1..Len(activity_log) : activity_log[j].start_date_local = None
    /\ \E j \in 1..Len(activity_log) : activity_log[j].icu_training_load = None
    /\ \E k \in 1..Len(load_report.daily_tss_by_sport) :
           /\ load_report.daily_tss_by_sport[k].sport_family = "other"
           /\ load_report.daily_tss_by_sport[k].daily[7] = 100
    /\ load_report.daily_tss_7d[7] = 200
    /\ load_report.daily_tss_28d[14] = 300

----------------------------------------------------------------------------
(* Claims on durability *)

DurabilityDone == pc = "durability_done"

\* a session's decoupling: the first of its two keys that is not null
ClaimDecoupling(act) ==
    IF act.icu_hr_decoupling # None THEN act.icu_hr_decoupling ELSE act.decoupling

\* the sessions of a list that qualify as the claim says
ClaimQualifying(acts) ==
    {k \in 1..Len(acts) :
        /\ ClaimDecoupling(acts[k]) # None
        /\ acts[k].icu_variability_index # None
        /\ Val(acts[k].icu_variability_index) > 0
        /\ Val(acts[k].icu_variability_index) <= 105
        /\ acts[k].moving_time # None
        /\ Val(acts[k].moving_time) >= 5400}

RECURSIVE ClaimDecouplingOver(_, _)
ClaimDecouplingOver(acts, idx) ==
    IF idx = {} THEN 0
    ELSE LET k == CHOOSE x \in idx : TRUE
         IN  Val(ClaimDecoupling(acts[k])) + ClaimDecouplingOver(acts, idx \ {k})

ClaimWindowMean(acts) ==
    IF Cardinality(ClaimQualifying(acts)) >= 2
    THEN Some(RoundDiv(ClaimDecouplingOver(acts, ClaimQualifying(acts)),
                       Cardinality(ClaimQualifying(acts))))
    ELSE None

\* C24: a session qualifies for durability exactly when its decoupling is
\* present (negative, zero or positive), its variability index is present and
\* in (0, 1.05] and its moving time is at least 5400 s; the qualifying count
\* and the mean of each window are taken over exactly those sessions.
C24_QualifyingSessions ==
    DurabilityDone =>
        LET recent == recent_activities_of(activity_log, today)
        IN  /\ durability_report.qualifying_sessions_7d
                   = Cardinality(ClaimQualifying(recent))
            /\ durability_report.qualifying_sessions_28d
                   = Cardinality(ClaimQualifying(activity_log))
            /\ durability_report.mean_decoupling_7d = ClaimWindowMean(recent)
            /\ durability_report.mean_decoupling_28d = ClaimWindowMean(activity_log)

----------------------------------------------------------------------------
(* Claims on the consistency index *)

ConsistencyDone == pc = "consistency_done"

\* the dates with a planned workout
ClaimPlannedDates ==
    {d \in 1..today : \E k \in 1..Len(planned_events) :
        /\ planned_events[k].category = "WORKOUT"
        /\ planned_events[k].start_date_local = Some(d)}

\* the planned dates with a completed activity of one of the cycling types
\* among the activities of the display window
ClaimMatchedDates ==
    {d \in ClaimPlannedDates : \E k \in 1..Len(activity_log) :
        /\ d >= today - (days_back - 1)
        /\ activity_log[k].start_date_local = Some(d)
        /\ \E t \in cycling_types : activity_log[k].type = Some(t)}

\* C25: the Consistency Index is (dates with both a planned workout and a
\* completed cycling activity) / (dates with a planned workout), to two
\* decimals; it is null when no date has a planned workout, lies in [0, 1],
\* and 5 planned dates with 3 matched give 0.6.
C25_ConsistencyIndex ==
    ConsistencyDone =>
        LET planned == Cardinality(ClaimPlannedDates)
            matched == Cardinality(ClaimMatchedDates)
            index == consistency_report.consistency_index
        IN  /\ (index = None) <=> (planned = 0)
            /\ index # None =>
                   /\ 2 * (Val(index) * planned - 100 * matched) <= planned
                   /\ 2 * (100 * matched - Val(index) * planned) <= planned
                   /\ Val(index) >= 0
                   /\ Val(index) <= 100
            /\ (planned = 5 /\ matched = 3) => index = Some(60)

C25_Witness ==
    /\ ConsistencyDone
    /\ Cardinality(ClaimPlannedDates) = 5
    /\ Cardinality(ClaimMatchedDates) = 3
    /\ \E k \in 1..Len(activity_log) : activity_log[k].type = Some("Run")
    /\ consistency_report.consistency_index = Some(60)

----------------------------------------------------------------------------
(* Further claims on the threshold history, the alerts and the race week *)

\* C27: after any sequence of runs from an empty history, run dates not
\* decreasing and several runs possible on one date, no two chronologically
\* adjacent entries of a context's history hold the same value.
C27_AdjacentEntriesDiffer ==
    \A c \in Contexts : \A d1, d2 \in DOMAIN history[c] :
        (d1 < d2 /\ \A d \in DOMAIN history[c] : ~(d1 < d /\ d < d2)) =>
            history[c][d1] # history[c][d2]

\* C28: every HRV alert and every RHR alert carries a persistence count of at
\* least 1: the most recent record, whose reading triggered the alert, is
\* itself counted as a violating day.
C28_PersistenceAtLeastOne ==
    Generated =>
        \A a \in AlertsOf(generated_alerts, "hrv") \cup AlertsOf(generated_alerts, "rhr") :
            /\ a.persistence_days # None
            /\ Val(a.persistence_days) >= 1

\* C29: whenever a monotony alert is suppressed to info by deload detection,
\* the alert list of the same run also holds an ACWR alert, warning or alarm.
C29_DeloadImpliesAcwrAlert ==
    (/\ Generated
     /\ \E m \in AlertsOf(generated_alerts, "monotony") : m.severity = "info") =>
        /\ \E a \in AlertsOf(generated_alerts, "acwr") :
               a.severity \in {"warning", "alarm"}
        /\ \E a \in AlertsOf(alerts, "acwr") : a.severity \in {"warning", "alarm"}

\* C29 witness: a 7-day load of exactly 80% of the 28-day weekly average
\* (ACWR 0.8) with an effective monotony of 2.5: monotony info, ACWR warning.
C29_Witness ==
    /\ pc = "published"
    /\ derived_metrics.tss_7d_total = 1000
    /\ derived_metrics.tss_28d_total = 5000
    /\ derived_metrics.effective_monotony = Some(250)
    /\ Alert("monotony", "info", 2, None) \in AlertsOf(alerts, "monotony")
    /\ Alert("acwr", "warning", 2, None) \in AlertsOf(alerts, "acwr")

\* C30: when the current CTL is unknown the race-week protocol reports its
\* CTL-derived values (normal weekly load, weekly budget, today's load target,
\* projected race-day TSB) as absent, never as 0, and gives no go/no-go
\* verdict.
C30_UnknownCtlAbsent ==
    (RaceBuilt /\ RaceWeek.active /\ current_ctl = None) =>
        /\ RaceWeek.normal_weekly_tss # 0
        /\ RaceWeek.race_week_tss_budget # [min |-> 0, max |-> 0]
        /\ RaceWeek.today.load_target_tss = None
        /\ RaceWeek.projected_race_day_tsb = None
        /\ RaceWeek.go_no_go.tsb_status \notin {"green", "flag"}

====
